---- MODULE Spec2Model ----
(***************************************************************************)
(* Model of the dync upload service: the server loop and its flow control  *)
(* (src/dync/server.py), the storage registry and staging files            *)
(* (src/dync/storage.py) and the client session (src/dync/client.py).      *)
(*                                                                         *)
(* Every function of the source is an operator from a "world" record (the  *)
(* mutable state of the Server, its Upload sessions, the Storage and the   *)
(* file system) to the world after the call.  A call that raises is a      *)
(* world whose field exc is not "none".                                    *)
(***************************************************************************)
EXTENDS Integers, Sequences, FiniteSets, TLC

VARIABLES
    uploads,            \* Server._uploads: the ConnIds in insertion order
    up,                 \* Server._uploads: ConnId -> Upload session
    debt,               \* Server._debt
    last_active_check,  \* Server._last_active_check
    nfiles,             \* how many UploadFile objects were created
    fobj,               \* the UploadFile objects alive, by file_id
    files,              \* Storage._files (the registered file_ids)
    destinations,       \* Storage._destinations
    disk,               \* the destination paths that exist on disk
    dirs,               \* the destination directories that exist
    now,                \* time.time()
    pc,                 \* position of Server.serve: "top" or "recv"
    received,           \* what this turn of the loop received: message, environment
    sent,               \* the messages the last server step sent
    ret,                \* what the last handle_msg returned
    client,             \* the client: its Upload, its UploadFile, its position
    toServer,           \* the messages on their way to the server, oldest first
    toClient,           \* the messages on their way to the client, oldest first
    lost,               \* how many messages the network has lost
    ignored,            \* the kinds of chunk of the client the server has passed over
    ended               \* the connections a session of which the server has ended with a message

srvVars == <<uploads, up, debt, last_active_check>>
stoVars == <<nfiles, fobj, files, destinations, disk, dirs>>
cliVars == <<client, toServer, toClient, lost, ignored, ended>>
vars == <<srvVars, stoVars, now, pc, received, sent, ret, cliVars>>

-----------------------------------------------------------------------------
(* Program constants, src/dync/server.py:26-32 *)
CHUNKSIZE == 122880
TIMEOUT == 3600
MAX_DEBT == 500
MIN_DEBT == 300
MAX_CREDIT == 200
TRANSFER_THRESHOLD == 100

(* Program constants, src/dync/client.py:25 *)
RETRIES == 120

(* Bounds of the model *)
SourceLen == 3         \* the client's source file, in units of data
MaxQueries == 2        \* receive timeouts of the client in a run
MaxLost == 2           \* messages the network loses in a run
MaxBytes == 2          \* the staging area takes at most this many bytes
MaxFiles == 2          \* UploadFile objects created in a run
MaxTime == 3601        \* the clock stops here
FlowBytes == 1         \* the staging area of the flow-control specification
CodecBytes == 2        \* the staging area of the codec specification
CodecFiles == 1        \* UploadFile objects created in a run of the codec specification

Conns == {"c1", "c2", "c3", "c4"}
Conns2 == {"c1", "c2"}
Origins == {"u1", "u2"}

Min(a, b) == IF a <= b THEN a ELSE b
Max(a, b) == IF a >= b THEN a ELSE b

\* The element of a singleton.  Only({F(x) : x \in {e}}) is F(e): it names the
\* value of e once, as an assignment to a local variable does.
Only(S) == CHOOSE x \in S : TRUE

-----------------------------------------------------------------------------
(* Strings are sequences of one-character strings, so that the file name   *)
(* rules can look at characters.                                           *)

Letters == {"a", "b", "t", "x", "f", "i", "l", "e", "n", "m"}
\* string.ascii_letters + string.digits + '_.', over the model's alphabet
AllowedChars == Letters \cup {"_", "."}
\* \w of the re module, over the model's alphabet
WordChars == Letters \cup {"_"}

\* str.rfind(ch) over s[1..n]: the last index (1-based) of ch, 0 when absent
rfind(s, ch, n) ==
    IF \A k \in 1..n : s[k] # ch THEN 0
    ELSE CHOOSE k \in 1..n : s[k] = ch /\ \A j \in (k + 1)..n : s[j] # ch

\* os.path.basename
basename(p) ==
    LET i == rfind(p, "/", Len(p)) IN SubSeq(p, i + 1, Len(p))

\* os.path.splitext applied to a name without separator: the extension
\* starts at the last dot, unless only leading dots precede it
splitext(p) ==
    LET dot == rfind(p, ".", Len(p))
        lead == \A k \in 1..(dot - 1) : p[k] = "."
    IN  IF dot = 0 \/ lead
        THEN [stem |-> p, suffix |-> <<>>]
        ELSE [stem |-> SubSeq(p, 1, dot - 1), suffix |-> SubSeq(p, dot, Len(p))]

RECURSIVE lstrip(_, _)
lstrip(s, ch) ==
    IF s # <<>> /\ Head(s) = ch THEN lstrip(Tail(s), ch) ELSE s

\* clean_filename: [ok, name]; ok = FALSE is ValueError
clean_filename(path) ==
    Only({
        Only({
            IF cleaned_stem = <<>> THEN [ok |-> FALSE, name |-> <<>>]
            ELSE IF \E k \in 1..Len(parts.suffix) : parts.suffix[k] \notin AllowedChars
            THEN [ok |-> FALSE, name |-> <<>>]
            ELSE [ok |-> TRUE, name |-> cleaned_stem \o parts.suffix]
            : cleaned_stem \in
                {lstrip(SelectSeq(parts.stem, LAMBDA ch : ch \in AllowedChars), ".")} })
        : parts \in {splitext(basename(path))} })

-----------------------------------------------------------------------------
(* Storage configuration (the opts of Storage.__init__): the manual root   *)
(* for passthrough uploads and the ordered dropbox rules.  A rule's regexp *)
(* is a literal, which re.match anchors at the start of the name.  The     *)
(* rules of this configuration set requires_barcode: False.                *)

Dropboxes ==
    << [regexp |-> <<"b">>, path |-> "box1", has_origin |-> TRUE,
        origin |-> {"u1"}, match_file |-> TRUE],
       [regexp |-> <<"x">>, path |-> "box2", has_origin |-> FALSE,
        origin |-> {}, match_file |-> FALSE] >>

\* re.match(literal, name)
re_match(regexp, name) ==
    Len(name) >= Len(regexp) /\ SubSeq(name, 1, Len(regexp)) = regexp

RECURSIVE find_openbis_dest(_, _, _)
\* Storage._find_openbis_dest(origin, name, is_dir = False) from rule i on;
\* <<>> is None
find_openbis_dest(origin, name, i) ==
    IF i > Len(Dropboxes) THEN <<>>
    ELSE LET dropbox == Dropboxes[i] IN
         IF dropbox.has_origin /\ origin \notin dropbox.origin
         THEN find_openbis_dest(origin, name, i + 1)
         ELSE IF ~dropbox.match_file
         THEN find_openbis_dest(origin, name, i + 1)
         ELSE IF re_match(dropbox.regexp, name)
         THEN <<"dropbox", dropbox.path>>
         ELSE find_openbis_dest(origin, name, i + 1)

\* The meta object of a post-file: its keys, and the values of the two keys
\* the storage reads
HasKey(meta, key) == key \in meta.keys

\* Storage._dest_from_passthrough: [ok, dir]
dest_from_passthrough(passthrough) ==
    IF \E k \in 1..Len(passthrough) : passthrough[k] \notin WordChars
    THEN [ok |-> FALSE, dir |-> <<>>]
    ELSE [ok |-> TRUE, dir |-> <<"manual", passthrough>>]

\* Storage._destination_from_meta: [ok, dest]; ok = FALSE is
\* InvalidUploadRequest.  A destination is <<directory, cleaned name>>.
destination_from_meta(filename, cleaned_name, meta, origin) ==
    IF filename # basename(filename) \/ (filename # <<>> /\ Head(filename) = ".")
    THEN [ok |-> FALSE, dest |-> <<>>]
    ELSE LET pt == dest_from_passthrough(meta.passthrough)
             dest_dir == IF HasKey(meta, "passthrough") THEN pt.dir
                         ELSE find_openbis_dest(origin, filename, 1)
         IN  IF HasKey(meta, "passthrough") /\ ~pt.ok
             THEN [ok |-> FALSE, dest |-> <<>>]
             ELSE IF dest_dir = <<>>
             THEN [ok |-> FALSE, dest |-> <<>>]
             ELSE [ok |-> TRUE, dest |-> <<dest_dir, cleaned_name>>]

\* os.path.dirname of a destination
dirname(dest) == dest[1]

-----------------------------------------------------------------------------
(* The world: the mutable state a call reads and writes.  val is the value *)
(* a call returns, exc the exception it raised ("none": it returned).      *)

Cur ==
    [uploads |-> uploads, up |-> up, debt |-> debt,
     last_active_check |-> last_active_check,
     nfiles |-> nfiles, fobj |-> fobj, files |-> files, destinations |-> destinations,
     disk |-> disk, dirs |-> dirs,
     sent |-> <<>>, ret |-> <<>>, val |-> 0, exc |-> "none"]

Raise(w, e) == [w EXCEPT !.exc = e]
Caught(w) == [w EXCEPT !.exc = "none"]
Raised(w) == w.exc # "none"

\* hashlib.sha256().digest() over the bytes hashed so far: an ideal hash, one
\* digest per byte sequence
digest(bytes) == <<"sha256", bytes>>

\* uuid.uuid4().hex for a new UploadFile: an id no other object has had
NewId(w) == w.nfiles + 1

\* The name of the one top-level entry of an uploaded tar archive
\* (UploadFile._orig_tarname[0])
TarRoot == <<"t">>

\* The longest name the file system takes (NAME_MAX of limits.h): open() and
\* os.rename() raise OSError for a path with a longer component
NAME_MAX == 255

\* FINISHED_MARKER (storage.py:29)
FINISHED_MARKER ==
    <<".", "M", "A", "R", "K", "E", "R", "_", "i", "s", "_",
      "f", "i", "n", "i", "s", "h", "e", "d", "_">>

\* what _write_orig_filename appends to the path of the staging file, the
\* longest of the names of the sidecars
OrigSuffix ==
    <<".", "o", "r", "i", "g", "l", "a", "b", "f", "i", "l", "e", "n", "a", "m", "e">>

\* UploadFile.__init__
UploadFile(destination, filename, clean_name, meta, origin) ==
    [destination |-> destination, filename |-> filename,
     clean_name |-> clean_name, meta |-> meta, origin |-> origin,
     untar |-> HasKey(meta, "untar") /\ meta.untar = "True",
     hasher |-> <<>>, nbytes_written |-> 0, chunks |-> <<>>,
     cleanup_called |-> FALSE, tmpdir |-> TRUE, closed |-> FALSE,
     istar |-> FALSE, sidecars |-> FALSE, corrected_destination |-> <<>>]

\* An add_file that looks neither at the reserved destinations nor at the disk
add_file_unchecked(w, filename, meta, origin) ==
    Only({
        IF ~clean.ok THEN Raise(w, "Bad filename")
        ELSE Only({
            IF ~d.ok THEN Raise(w, "Invalid upload request")
            ELSE [w EXCEPT
                    !.nfiles = NewId(w),
                    !.fobj = (NewId(w) :> UploadFile(d.dest, filename, clean.name,
                                                     meta, origin)) @@ @,
                    !.files = @ \cup {NewId(w)},
                    !.destinations = @ \cup {d.dest},
                    !.val = NewId(w)]
            : d \in {destination_from_meta(filename, clean.name, meta, origin)} })
        : clean \in {clean_filename(filename)} })

\* Storage.add_file; val is the new file's id
add_file(w, filename, meta, origin) ==
    Only({
        IF ~clean.ok THEN Raise(w, "Bad filename")
        ELSE Only({
            IF ~d.ok THEN Raise(w, "Invalid upload request")
            ELSE IF d.dest \in w.destinations
            THEN Raise(w, "File is being uploaded already.")
            ELSE IF d.dest \in DOMAIN w.disk
            THEN Raise(w, "File exists on server.")
            ELSE [w EXCEPT
                    !.nfiles = NewId(w),
                    !.fobj = (NewId(w) :> UploadFile(d.dest, filename, clean.name,
                                                     meta, origin)) @@ @,
                    !.files = @ \cup {NewId(w)},
                    !.destinations = @ \cup {d.dest},
                    !.val = NewId(w)]
            : d \in {destination_from_meta(filename, clean.name, meta, origin)} })
        : clean \in {clean_filename(filename)} })

\* Storage.num_active
num_active(w) == Cardinality(w.files)

\* Storage._remove_file
remove_file(w, file_id) ==
    IF file_id \notin w.files THEN Raise(w, "AssertionError")
    ELSE IF w.fobj[file_id].destination \notin w.destinations
    THEN Raise(w, "KeyError")
    ELSE [w EXCEPT !.destinations = @ \ {w.fobj[file_id].destination},
                   !.files = @ \ {file_id}]

\* UploadFile.write; the environment decides whether the disk takes the data
write(w, file_id, data, env) ==
    IF env.write_fails THEN Raise(w, "OSError")
    ELSE [w EXCEPT !.fobj[file_id].hasher = @ \o data,
                   !.fobj[file_id].chunks = Append(@, data),
                   !.fobj[file_id].nbytes_written = @ + Len(data)]

\* UploadFile._cleanup
cleanup(w, file_id) ==
    IF w.fobj[file_id].cleanup_called THEN w
    ELSE remove_file([w EXCEPT !.fobj[file_id].cleanup_called = TRUE,
                               !.fobj[file_id].closed = TRUE,
                               !.fobj[file_id].tmpdir = FALSE], file_id)

\* UploadFile.abort
abort(w, file_id) == cleanup(w, file_id)

\* A Storage.__exit__ that stops after the first file
storage_exit_first(w) ==
    IF w.files = {} THEN w
    ELSE cleanup(w, CHOOSE j \in w.files : \A k \in w.files : j <= k)

RECURSIVE storage_exit_over(_, _)
\* the loop of Storage.__exit__ over the files of ids; an exception of
\* _cleanup ends it
storage_exit_over(w, ids) ==
    IF ids = {} \/ Raised(w) THEN w
    ELSE Only({ storage_exit_over(cleanup(w, i), ids \ {i})
                : i \in {CHOOSE j \in ids : \A k \in ids : j <= k} })

\* Storage.__exit__
storage_exit(w) == storage_exit_over(w, w.files)

\* os.rename(src, dst) of a directory succeeds when dst's parent exists and
\* dst does not
can_rename(w, dst) == dirname(dst) \in w.dirs /\ dst \notin DOMAIN w.disk

\* what lands at a destination: the bytes and whether the sidecars are there
Landed(f) == [content |-> f.hasher, sidecars |-> f.sidecars]

\* UploadFile.finalize, lines 230-256: the tar branch.  env.tar is the shape
\* of the uploaded bytes: "none" (no tar archive), "many" (more than 10
\* names), "noroot" (not exactly one top-level name), "ok".
finalize_untar(w, file_id, env) ==
    IF env.tar = "many"
    THEN Only({
            IF Raised(a) THEN a
            ELSE Raise(a, "You are not allowed to have more than 10 files in your archive.")
            : a \in {abort([w EXCEPT !.fobj[file_id].istar = TRUE], file_id)} })
    ELSE IF env.tar = "noroot"
    THEN Raise([w EXCEPT !.fobj[file_id].istar = TRUE],
               "The original unique tar archive name couldnot be trieved by dync.")
    ELSE [w EXCEPT !.fobj[file_id].istar = TRUE,
                   !.fobj[file_id].corrected_destination =
                       <<dirname(w.fobj[file_id].destination), TarRoot>>]

\* UploadFile.finalize, lines 271-291: move to the destination, clean up
finalize_move(w, file_id) ==
    LET f == w.fobj[file_id] IN
    IF f.istar /\ f.untar
    THEN IF ~can_rename(w, <<dirname(f.destination), TarRoot>>)
         THEN \* the finally clause removes a directory abort() has removed
              Only({ IF Raised(a) THEN a ELSE Raise(a, "FileNotFoundError")
                     : a \in {abort(w, file_id)} })
         ELSE cleanup([w EXCEPT
                         !.disk = (<<dirname(f.destination), TarRoot>> :> Landed(f)) @@ @,
                         !.fobj[file_id].tmpdir = FALSE], file_id)
    ELSE IF ~can_rename(w, f.destination)
         THEN Raise(w, "OSError")
         ELSE cleanup([w EXCEPT !.disk = (f.destination :> Landed(f)) @@ @,
                                !.fobj[file_id].tmpdir = FALSE], file_id)

\* UploadFile._write_marker: a marker that exists is logged; a marker the
\* file system does not take is an OSError
write_marker(w, file_id) ==
    LET f == w.fobj[file_id]
        destination == IF f.corrected_destination # <<>>
                       THEN f.corrected_destination ELSE f.destination
    IN  IF Len(FINISHED_MARKER \o destination[2]) > NAME_MAX
        THEN Raise(w, "OSError")
        ELSE w

\* UploadFile.finalize, lines 258-261: the sidecars of what is no archive
write_sidecars(w, file_id) ==
    IF w.fobj[file_id].istar THEN w
    ELSE IF Len(w.fobj[file_id].destination[2] \o OrigSuffix) > NAME_MAX
    THEN Raise(w, "OSError")
    ELSE [w EXCEPT !.fobj[file_id].sidecars = TRUE]

\* UploadFile.finalize
finalize(w, file_id, remote_checksum, env) ==
    LET f == w.fobj[file_id]
        is_tarfile == env.tar # "none" /\ f.hasher # <<>>
    IN  IF remote_checksum # digest(f.hasher)
        THEN Raise(w, "Failed finalizing file: checksum mismatch")
        ELSE Only({
                IF Raised(w2) THEN w2
                ELSE Only({
                        IF Raised(w3) THEN w3
                        ELSE Only({ IF Raised(w4) THEN w4
                                    ELSE write_marker(w4, file_id)
                                    : w4 \in {finalize_move(w3, file_id)} })
                        : w3 \in {write_sidecars(w2, file_id)} })
                : w2 \in {IF is_tarfile /\ f.untar
                          THEN finalize_untar([w EXCEPT !.fobj[file_id].closed = TRUE],
                                              file_id, env)
                          ELSE [w EXCEPT !.fobj[file_id].closed = TRUE]} })

-----------------------------------------------------------------------------
(* ServerConnection (src/dync/messages.py): each send_* encodes its        *)
(* integers with int.to_bytes, which raises OverflowError for a negative   *)
(* value or one too wide.  No value of the model reaches 2^32, so a value  *)
(* fits when it is not negative.                                           *)

fits_unsigned(v) == v >= 0

Send(w, conn, msg) == [w EXCEPT !.sent = Append(@, [to |-> conn, msg |-> msg])]

send_upload_approved(w, conn, chunksize, max_credit, credit) ==
    IF fits_unsigned(credit) /\ fits_unsigned(chunksize) /\ fits_unsigned(max_credit)
    THEN Send(w, conn, [command |-> "upload-approved", credit |-> credit,
                        chunksize |-> chunksize, max_credit |-> max_credit])
    ELSE Raise(w, "OverflowError")

send_upload_finished(w, conn, upload_id) ==
    Send(w, conn, [command |-> "upload-finished", upload_id |-> upload_id])

send_tranfer_credit(w, conn, amount) ==
    IF fits_unsigned(amount)
    THEN Send(w, conn, [command |-> "transfer-credit", amount |-> amount])
    ELSE Raise(w, "OverflowError")

send_status_report(w, conn, seek, credit) ==
    IF fits_unsigned(seek) /\ fits_unsigned(credit)
    THEN Send(w, conn, [command |-> "status-report", seek |-> seek, credit |-> credit])
    ELSE Raise(w, "OverflowError")

send_error(w, conn, code, msg) ==
    IF fits_unsigned(code)
    THEN Send(w, conn, [command |-> "error", code |-> code, msg |-> msg])
    ELSE Raise(w, "OverflowError")

\* Server.send_error: the code on the wire is the literal 500, and a failure
\* to send is logged, not raised
server_send_error(w, connection_id, code, msg) ==
    Send(w, connection_id, [command |-> "error", code |-> 500, msg |-> msg])

-----------------------------------------------------------------------------
(* Upload (src/dync/server.py): the session of one connection.  t is       *)
(* time.time() at the call.                                                *)

\* Upload.__init__; the session's id stands for uuid4().hex
Upload(w, conn, file_id, origin, init_credit, t) ==
    send_upload_approved(
        [w EXCEPT !.val = [id |-> <<"upload", file_id>>, origin |-> origin,
                           file |-> file_id, credit |-> init_credit,
                           last_active |-> t, canceled |-> FALSE]],
        conn, CHUNKSIZE, MAX_CREDIT, init_credit)

\* A cancellation that marks the session and leaves its file alone
silent_cancel_keeps_file(w, conn) ==
    [w EXCEPT !.up[conn].canceled = TRUE, !.val = w.up[conn].credit]

\* Upload._silent_cancel; val is the credit returned
silent_cancel(w, conn) ==
    Only({ IF Raised(a) THEN a ELSE [a EXCEPT !.val = a.up[conn].credit]
           : a \in {abort([w EXCEPT !.up[conn].canceled = TRUE], w.up[conn].file)} })

\* An Upload.cancel that sends its error twice
cancel_twice(w, conn, code, msg) ==
    Only({ IF Raised(w1) THEN w1 ELSE silent_cancel(w1, conn)
           : w1 \in {send_error(send_error(w, conn, code, msg), conn, code, msg)} })

\* Upload.cancel; val is the credit returned
cancel(w, conn, code, msg) ==
    Only({ IF Raised(w1) THEN w1 ELSE silent_cancel(w1, conn)
           : w1 \in {send_error(w, conn, code, msg)} })

\* A chunk handler that writes whatever arrives, wherever it says it belongs
handle_post_chunk_any_seek(w, conn, msg, env) ==
    Only({ IF Raised(w1) THEN w1
           ELSE [w1 EXCEPT !.up[conn].credit = @ - 1, !.ret = <<FALSE, 1>>]
           : w1 \in {write(w, w.up[conn].file, msg.data, env)} })

\* Upload._handle_post_chunk
handle_post_chunk(w, conn, msg, env) ==
    LET file_id == w.up[conn].file
        returned_credit == w.up[conn].credit
    IN  IF msg.seek # w.fobj[file_id].nbytes_written
        THEN [w EXCEPT !.ret = <<FALSE, 0>>]
        ELSE IF msg.is_last
        THEN Only({
                Only({
                    IF Raised(w1) THEN w1
                    ELSE [w1 EXCEPT !.up[conn].credit = @ - returned_credit,
                                    !.ret = <<msg.is_last, returned_credit>>]
                    : w1 \in {IF Raised(f)
                              THEN send_error(Caught(f), conn, 500, f.exc)
                              ELSE send_upload_finished(f, conn, f.up[conn].id)} })
                : f \in {finalize(w, file_id, msg.checksum, env)} })
        ELSE Only({
                IF Raised(w1) THEN w1
                ELSE [w1 EXCEPT !.up[conn].credit = @ - 1,
                                !.ret = <<msg.is_last, 1>>]
                : w1 \in {write(w, file_id, msg.data, env)} })

\* A handler of the client's error that cancels the session and reports no
\* credit to the server
handle_error_reports_nothing(w, conn, msg) ==
    Only({ IF Raised(w1) THEN w1 ELSE [w1 EXCEPT !.ret = <<TRUE, 0>>]
           : w1 \in {silent_cancel(w, conn)} })

\* Upload._handle_error
handle_error(w, conn, msg) ==
    Only({ IF Raised(w1) THEN w1 ELSE [w1 EXCEPT !.ret = <<TRUE, w1.up[conn].credit>>]
           : w1 \in {silent_cancel(w, conn)} })

\* A status handler that reports a position one unit past the file's
handle_query_status_past_end(w, conn, msg) ==
    Only({ IF Raised(w1) THEN w1 ELSE [w1 EXCEPT !.ret = <<FALSE, 0>>]
           : w1 \in {send_status_report(w, conn,
                                        w.fobj[w.up[conn].file].nbytes_written + 1,
                                        w.up[conn].credit)} })

\* Upload._handle_query_status
handle_query_status(w, conn, msg) ==
    Only({ IF Raised(w1) THEN w1 ELSE [w1 EXCEPT !.ret = <<FALSE, 0>>]
           : w1 \in {send_status_report(w, conn,
                                        w.fobj[w.up[conn].file].nbytes_written,
                                        w.up[conn].credit)} })

\* Upload.handle_msg
handle_msg(w, conn, msg, env, t) ==
    IF w.up[conn].canceled THEN Raise(w, "AssertionError")
    ELSE Only({
            IF Raised(r)
            THEN Only({ IF Raised(c) THEN c ELSE [c EXCEPT !.ret = <<TRUE, c.val>>]
                        : c \in {cancel(Caught(r), conn, 500, "Unknown error")} })
            ELSE r
            : r \in {Only({
                        IF msg.command = "post-chunk"
                        THEN handle_post_chunk(w1, conn, msg, env)
                        ELSE IF msg.command = "error" THEN handle_error(w1, conn, msg)
                        ELSE IF msg.command = "query-status"
                        THEN handle_query_status(w1, conn, msg)
                        ELSE [w1 EXCEPT !.ret = <<TRUE, 0>>]
                        : w1 \in {[w EXCEPT !.up[conn].last_active = t]} })} })

\* An Upload.offer_credit that tells the client the amount it was offered
offer_credit_sends_amount(w, conn, amount) ==
    IF w.up[conn].credit >= TRANSFER_THRESHOLD THEN [w EXCEPT !.val = 0]
    ELSE LET old == w.up[conn].credit
             new == Min(MAX_CREDIT, old + amount)
             transfer == new - old
         IN  Only({ IF Raised(w1) THEN w1 ELSE [w1 EXCEPT !.val = transfer]
                    : w1 \in {send_tranfer_credit([w EXCEPT !.up[conn].credit = new],
                                                  conn, amount)} })

\* Upload.offer_credit; val is the credit transferred
offer_credit(w, conn, amount) ==
    IF w.up[conn].credit >= TRANSFER_THRESHOLD THEN [w EXCEPT !.val = 0]
    ELSE LET old == w.up[conn].credit
             new == Min(MAX_CREDIT, old + amount)
             transfer == new - old
         IN  Only({ IF Raised(w1) THEN w1 ELSE [w1 EXCEPT !.val = transfer]
                    : w1 \in {send_tranfer_credit([w EXCEPT !.up[conn].credit = new],
                                                  conn, transfer)} })

\* Upload.seconds_since_active
seconds_since_active(w, conn, t) == t - w.up[conn].last_active

-----------------------------------------------------------------------------
(* Server (src/dync/server.py)                                             *)

\* A Server._add_upload that grants every new session MAX_CREDIT
add_upload_full_credit(w, msg, t) ==
    IF msg.connection \in DOMAIN w.up THEN Raise(w, "Connection id not unique")
    ELSE Only({
            IF Raised(f) THEN f
            ELSE Only({
                IF Raised(u)
                THEN Only({ IF Raised(a) THEN a ELSE Raise(a, u.exc)
                            : a \in {abort(Caught(u), f.val)} })
                ELSE [u EXCEPT !.debt = @ + MAX_CREDIT,
                               !.uploads = Append(@, msg.connection),
                               !.up = (msg.connection :> u.val) @@ @]
                : u \in {Upload(f, msg.connection, f.val, msg.origin, MAX_CREDIT, t)} })
            : f \in {add_file(w, msg.name, msg.meta, msg.origin)} })

\* A Server._add_upload that does not look for a session of the connection
add_upload_any_connection(w, msg, t) ==
    LET init_credit == Min(MAX_CREDIT, Max(0, MAX_DEBT - w.debt)) IN
    Only({
        IF Raised(f) THEN f
        ELSE Only({
            IF Raised(u)
            THEN Only({ IF Raised(a) THEN a ELSE Raise(a, u.exc)
                        : a \in {abort(Caught(u), f.val)} })
            ELSE [u EXCEPT !.debt = @ + init_credit,
                           !.uploads = Append(SelectSeq(@, LAMBDA c : c # msg.connection),
                                              msg.connection),
                           !.up = (msg.connection :> u.val) @@ @]
            : u \in {Upload(f, msg.connection, f.val, msg.origin, init_credit, t)} })
        : f \in {add_file(w, msg.name, msg.meta, msg.origin)} })

\* Server._add_upload.  The call at line 155 passes (name, meta) to
\* Storage.add_file(filename, meta, origin); the model hands add_file the
\* origin of the message, the one Upload() is given at line 161.
add_upload(w, msg, t) ==
    IF msg.connection \in DOMAIN w.up THEN Raise(w, "Connection id not unique")
    ELSE LET init_credit == Min(MAX_CREDIT, Max(0, MAX_DEBT - w.debt)) IN
         Only({
            IF Raised(f) THEN f
            ELSE Only({
                IF Raised(u)
                THEN Only({ IF Raised(a) THEN a ELSE Raise(a, u.exc)
                            : a \in {abort(Caught(u), f.val)} })
                ELSE [u EXCEPT !.debt = @ + init_credit,
                               !.uploads = Append(@, msg.connection),
                               !.up = (msg.connection :> u.val) @@ @]
                : u \in {Upload(f, msg.connection, f.val, msg.origin, init_credit, t)} })
            : f \in {add_file(w, msg.name, msg.meta, msg.origin)} })

\* Server._add_upload with the call of line 155 as it is written:
\* add_file(msg.name, msg.meta) gives two arguments to a method that
\* requires three, which Python refuses with a TypeError before add_file runs
add_upload_as_written(w, msg, t) ==
    IF msg.connection \in DOMAIN w.up THEN Raise(w, "Connection id not unique")
    ELSE Raise(w, "add_file() missing 1 required positional argument: 'origin'")

\* del self._uploads[connection]
del_upload(w, conn) ==
    [w EXCEPT !.uploads = SelectSeq(@, LAMBDA c : c # conn),
              !.up = [c \in DOMAIN @ \ {conn} |-> @[c]]]

\* A dispatch that hands the session every message on its connection,
\* whatever the origin
dispatch_connection_any_origin(w, msg, env, t) ==
    IF msg.connection \notin DOMAIN w.up
    THEN server_send_error(w, msg.connection, 400, "Unknown connection.")
    ELSE Only({
            IF Raised(h) THEN h
            ELSE IF h.ret[1]
            THEN del_upload([h EXCEPT !.debt = @ - h.ret[2]], msg.connection)
            ELSE [h EXCEPT !.debt = @ - h.ret[2]]
            : h \in {handle_msg(w, msg.connection, msg, env, t)} })

\* A Server._dispatch_connection that keeps a session that has finished
dispatch_connection_keeps_session(w, msg, env, t) ==
    IF msg.connection \notin DOMAIN w.up
    THEN server_send_error(w, msg.connection, 400, "Unknown connection.")
    ELSE IF w.up[msg.connection].origin # msg.origin THEN w
    ELSE Only({
            IF Raised(h) THEN h ELSE [h EXCEPT !.debt = @ - h.ret[2]]
            : h \in {handle_msg(w, msg.connection, msg, env, t)} })

\* Server._dispatch_connection
dispatch_connection(w, msg, env, t) ==
    IF msg.connection \notin DOMAIN w.up
    THEN server_send_error(w, msg.connection, 400, "Unknown connection.")
    ELSE IF w.up[msg.connection].origin # msg.origin THEN w
    ELSE Only({
            IF Raised(h) THEN h
            ELSE IF h.ret[1]
            THEN del_upload([h EXCEPT !.debt = @ - h.ret[2]], msg.connection)
            ELSE [h EXCEPT !.debt = @ - h.ret[2]]
            : h \in {handle_msg(w, msg.connection, msg, env, t)} })

RECURSIVE distribute_no_stop(_, _)
\* A loop of Server._distribute_credit that goes on when the debt has
\* reached MAX_DEBT
distribute_no_stop(w, i) ==
    IF i > Len(w.uploads) THEN w
    ELSE Only({
            IF Raised(o) THEN o
            ELSE Only({ distribute_no_stop(w1, i + 1)
                        : w1 \in {[o EXCEPT !.debt = @ + o.val]} })
            : o \in {offer_credit(w, w.uploads[i], MAX_DEBT - w.debt)} })

RECURSIVE distribute_from(_, _)
\* the loop of Server._distribute_credit from the i-th session on
distribute_from(w, i) ==
    IF i > Len(w.uploads) \/ w.debt >= MAX_DEBT THEN w
    ELSE Only({
            IF Raised(o) THEN o
            ELSE Only({ distribute_from(w1, i + 1)
                        : w1 \in {[o EXCEPT !.debt = @ + o.val]} })
            : o \in {offer_credit(w, w.uploads[i], MAX_DEBT - w.debt)} })

\* A Server._distribute_credit that offers nothing
distribute_credit_idle(w) == w

\* Server._distribute_credit
distribute_credit(w) == distribute_from(w, 1)

RECURSIVE cancel_timed_out(_, _, _, _)
\* the first loop of Server._check_timeouts from the i-th session on;
\* val is <<cancel, credit>>
cancel_timed_out(w, i, t, acc) ==
    IF i > Len(w.uploads) THEN [w EXCEPT !.val = acc]
    ELSE IF seconds_since_active(w, w.uploads[i], t) > TIMEOUT
    THEN Only({
            IF Raised(c) THEN c
            ELSE Only({ cancel_timed_out(c, i + 1, t, acc1)
                        : acc1 \in {<<Append(acc[1], w.uploads[i]), acc[2] + c.val>>} })
            : c \in {cancel(w, w.uploads[i], 408, "Connection timed out.")} })
    ELSE cancel_timed_out(w, i + 1, t, acc)

RECURSIVE del_uploads(_, _)
del_uploads(w, keys) ==
    IF keys = <<>> THEN w
    ELSE Only({ del_uploads(w1, Tail(keys)) : w1 \in {del_upload(w, Head(keys))} })

\* A sweep that cancels the timed-out sessions and leaves the debt as it was
check_timeouts_keeps_debt(w, t) ==
    Only({
        IF Raised(c) THEN c
        ELSE del_uploads(c, c.val[1])
        : c \in {cancel_timed_out([w EXCEPT !.last_active_check = t], 1, t,
                                  <<<<>>, 0>>)} })

\* Server._check_timeouts
check_timeouts(w, t) ==
    Only({
        IF Raised(c) THEN c
        ELSE [del_uploads(c, c.val[1]) EXCEPT !.debt = @ - c.val[2]]
        : c \in {cancel_timed_out([w EXCEPT !.last_active_check = t], 1, t,
                                  <<<<>>, 0>>)} })

RECURSIVE server_exit_from(_, _)
\* the loop of Server.__exit__ from the i-th session on; an exception of
\* cancel is logged and the loop goes on
server_exit_from(w, i) ==
    IF i > Len(w.uploads) THEN w
    ELSE Only({ server_exit_from(Caught(c), i + 1)
                : c \in {cancel(w, w.uploads[i], 503, "Server shutdown")} })

\* Server.__exit__
server_exit(w) == server_exit_from(w, 1)

\* Server.serve, lines 224-228: the head of one turn of the loop
serve_top(w, t) ==
    Only({
        IF Raised(w1) THEN w1
        ELSE IF t - w1.last_active_check > TIMEOUT THEN check_timeouts(w1, t)
        ELSE w1
        : w1 \in {IF w.debt < MIN_DEBT THEN distribute_credit(w) ELSE w} })

\* Server.serve, lines 238-249: what the loop does with a decoded message
serve_msg(w, msg, env, t) ==
    IF msg.command = "post-file"
    THEN Only({
            IF Raised(a)
            THEN server_send_error(Caught(a), msg.connection, 500,
                                   "Failed to create upload: " \o a.exc)
            ELSE a
            : a \in {add_upload(w, msg, t)} })
    ELSE dispatch_connection(w, msg, env, t)

\* Server.serve, lines 238-249, over Server._add_upload as it is written
serve_msg_as_written(w, msg, env, t) ==
    IF msg.command = "post-file"
    THEN Only({
            IF Raised(a)
            THEN server_send_error(Caught(a), msg.connection, 500,
                                   "Failed to create upload: " \o a.exc)
            ELSE a
            : a \in {add_upload_as_written(w, msg, t)} })
    ELSE dispatch_connection(w, msg, env, t)

-----------------------------------------------------------------------------
(* The client (src/dync/client.py).  A unit of the client's data is half a *)
(* chunk, so that a source of SourceLen units is read as more than one     *)
(* chunk; seek positions count units.                                      *)

Unit == CHUNKSIZE \div 2

\* the client's source file: unit k is the datum k
Source == [k \in 1..SourceLen |-> k]

\* the socket identity of the client and the user it is authenticated as
ClientConn == "c1"
ClientOrigin == "u1"

\* collections.deque(maxlen).append
deque_append(q, x, maxlen) ==
    IF maxlen = 0 THEN <<>>
    ELSE IF Len(q) >= maxlen THEN Append(Tail(q), x)
    ELSE Append(q, x)

\* client.UploadFile.__init__; pos is the position of the file object, taken
\* the data read() has taken from it, in order
ClientUploadFile(maxqueue, chunksize) ==
    [chunksize |-> chunksize, maxqueue |-> maxqueue, hasher |-> <<>>,
     seek_read |-> 0, seek |-> 0, chunks |-> <<>>, pos |-> 0, taken |-> <<>>]

\* client.UploadFile.read: [file, data, ok]; ok = FALSE is RuntimeError
client_read(f) ==
    IF f.seek = f.seek_read
    THEN LET n == f.chunksize \div Unit
             data == SubSeq(Source, f.pos + 1, Min(f.pos + n, Len(Source)))
         IN  [file |-> [f EXCEPT !.hasher = @ \o data,
                                 !.chunks = deque_append(@, <<f.seek, data>>, f.maxqueue),
                                 !.seek_read = @ + Len(data),
                                 !.seek = @ + Len(data),
                                 !.pos = @ + Len(data),
                                 !.taken = Append(@, data)],
              data |-> data, ok |-> TRUE]
    ELSE LET hits == {k \in 1..Len(f.chunks) : f.chunks[k][1] = f.seek} IN
         IF hits = {} THEN [file |-> f, data |-> <<>>, ok |-> FALSE]
         ELSE LET k == CHOOSE h \in hits : \A g \in hits : h <= g
                  data == f.chunks[k][2]
              IN  [file |-> [f EXCEPT !.seek = @ + Len(data)],
                   data |-> data, ok |-> TRUE]

\* client.UploadFile.seek(new_value): [file, ok]; ok = FALSE is AssertionError
client_seek(f, new_value) ==
    IF new_value <= f.seek_read
    THEN [file |-> [f EXCEPT !.seek = new_value], ok |-> TRUE]
    ELSE [file |-> f, ok |-> FALSE]

\* The messages of ClientConnection, as recv_msg_server decodes them
client_post_file(name, meta) ==
    [command |-> "post-file", connection |-> ClientConn, origin |-> ClientOrigin,
     flags |-> 0, name |-> name, meta |-> meta]
client_post_chunk(seek, data, is_last, checksum) ==
    [command |-> "post-chunk", connection |-> ClientConn, origin |-> ClientOrigin,
     is_last |-> is_last, seek |-> seek, data |-> data, checksum |-> checksum]
client_query_status ==
    [command |-> "query-status", connection |-> ClientConn, origin |-> ClientOrigin]

\* the name Upload.__init__ posts (client.py:127), and the meta of the run
PostedName == <<"f", "i", "l", "e", "n", "a", "m", "e">>
PostedMeta == [keys |-> {"passthrough"}, passthrough |-> <<"t">>, untar |-> ""]

\* The client before Upload.__init__.  pc is its position: "start", "init"
\* (Upload.__init__ waits for the approval), "send" (in send_chunks), "recv"
\* (in _recv_server_status), "done" (serve returned), "failed" (an
\* exception ended it).
NewClient ==
    [pc |-> "start", credit |-> 0, is_last |-> FALSE, retries |-> 0,
     file |-> ClientUploadFile(0, 0), upload_id |-> <<>>,
     queries |-> 0, rewound |-> FALSE]

\* the call of send_chunks: into the loop, or past it when there is no credit
send_chunks(c) ==
    IF c.credit # 0
    THEN [c EXCEPT !.pc = "send", !.is_last = FALSE]
    ELSE [c EXCEPT !.pc = "recv", !.is_last = FALSE, !.retries = 0]

\* A turn of the loop of send_chunks that spends no credit
send_chunk_free(c) ==
    Only({
        IF ~r.ok THEN [c |-> [c EXCEPT !.pc = "failed"], out |-> <<>>]
        ELSE LET is_last == r.data = <<>>
                 checksum == IF is_last THEN digest(r.file.hasher) ELSE <<>>
             IN  [c |-> [c EXCEPT !.file = r.file,
                                  !.is_last = is_last, !.retries = 0,
                                  !.pc = IF ~is_last THEN "send" ELSE "recv"],
                  out |-> <<client_post_chunk(c.file.seek, r.data, is_last, checksum)>>]
        : r \in {client_read(c.file)} })

\* Upload._send_chunk and the rest of one turn of the loop of send_chunks:
\* [c, out]
send_chunk(c) ==
    Only({
        IF ~r.ok THEN [c |-> [c EXCEPT !.pc = "failed"], out |-> <<>>]
        ELSE LET is_last == r.data = <<>>
                 checksum == IF is_last THEN digest(r.file.hasher) ELSE <<>>
                 credit == c.credit - 1
             IN  [c |-> [c EXCEPT !.file = r.file, !.credit = credit,
                                  !.is_last = is_last, !.retries = 0,
                                  !.pc = IF credit # 0 /\ ~is_last
                                         THEN "send" ELSE "recv"],
                  out |-> <<client_post_chunk(c.file.seek, r.data, is_last, checksum)>>]
        : r \in {client_read(c.file)} })

\* Upload.__init__ from the reply to post-file on
approved(c, msg) ==
    IF msg.command = "upload-approved"
    THEN send_chunks([c EXCEPT !.credit = msg.credit,
                               !.file = ClientUploadFile(msg.max_credit, msg.chunksize)])
    ELSE [c EXCEPT !.pc = "failed"]

\* An Upload._recv_server_status that takes the credit of a status report
\* and leaves the read position where it is
recv_server_status_keeps_seek(c, msg) ==
    IF msg.command = "transfer-credit"
    THEN send_chunks([c EXCEPT !.credit = @ + msg.amount])
    ELSE IF msg.command = "status-report"
    THEN send_chunks([c EXCEPT !.credit = msg.credit])
    ELSE IF msg.command = "upload-finished"
    THEN [c EXCEPT !.pc = "done", !.upload_id = msg.upload_id]
    ELSE [c EXCEPT !.pc = "failed"]

\* Upload._recv_server_status once a message is there, and what serve does
\* with its result
recv_server_status(c, msg) ==
    IF msg.command = "transfer-credit"
    THEN send_chunks([c EXCEPT !.credit = @ + msg.amount])
    ELSE IF msg.command = "status-report"
    THEN Only({
            IF ~s.ok THEN [c EXCEPT !.pc = "failed"]
            ELSE send_chunks([c EXCEPT !.credit = msg.credit, !.file = s.file,
                                       !.rewound = @ \/ msg.seek < c.file.seek])
            : s \in {client_seek(c.file, msg.seek)} })
    ELSE IF msg.command = "upload-finished"
    THEN [c EXCEPT !.pc = "done", !.upload_id = msg.upload_id]
    ELSE [c EXCEPT !.pc = "failed"]

-----------------------------------------------------------------------------
(* The wire (src/dync/messages.py).  A byte string is a sequence of the    *)
(* values of its bytes, except that the 32 bytes of a SHA-256 digest stay  *)
(* the value digest() gives.  A frame is its bytes and the User-Id the     *)
(* authenticator attached to it ("" when it has none).                     *)

\* the characters of the codes 32..126, in order; "(92)" and "(96)" stand for
\* the backslash and the grave accent
Printable ==
    <<" ", "!", "\"", "#", "$", "%", "&", "'", "(", ")", "*", "+", ",", "-", ".", "/",
      "0", "1", "2", "3", "4", "5", "6", "7", "8", "9", ":", ";", "<", "=", ">", "?",
      "@", "A", "B", "C", "D", "E", "F", "G", "H", "I", "J", "K", "L", "M", "N", "O",
      "P", "Q", "R", "S", "T", "U", "V", "W", "X", "Y", "Z", "[", "(92)", "]", "^", "_",
      "(96)", "a", "b", "c", "d", "e", "f", "g", "h", "i", "j", "k", "l", "m", "n", "o",
      "p", "q", "r", "s", "t", "u", "v", "w", "x", "y", "z", "{", "|", "}", "~">>

Ord(ch) == 31 + (CHOOSE n \in 1..Len(Printable) : Printable[n] = ch)
Chr(code) == Printable[code - 31]

\* str.encode('utf8') of a string of printable ASCII
utf8_encode(chars) == [k \in 1..Len(chars) |-> Ord(chars[k])]

\* bytes.decode('utf8'): [ok, text]; ok = FALSE is UnicodeDecodeError.  The
\* byte strings of the model hold printable ASCII and the byte 255, which no
\* UTF-8 text contains.
utf8_decode(bytes) ==
    IF \E k \in 1..Len(bytes) : bytes[k] < 32 \/ bytes[k] > 126
    THEN [ok |-> FALSE, text |-> <<>>]
    ELSE [ok |-> TRUE, text |-> [k \in 1..Len(bytes) |-> Chr(bytes[k])]]

(* Python's integers have no bound, and the wire carries values beyond the *)
(* integers of the model checker.  On the wire side an integer that is not *)
(* negative is the sequence of its base-256 digits, the highest first and  *)
(* not 0; zero is the empty sequence.                                      *)

RECURSIVE Digits(_)
\* the digits of the integer v >= 0
Digits(v) == IF v = 0 THEN <<>> ELSE Append(Digits(v \div 256), v % 256)

RECURSIVE ValueOf(_)
\* the integer of digits, where it is below 2^31
ValueOf(digits) ==
    IF digits = <<>> THEN 0
    ELSE 256 * ValueOf(SubSeq(digits, 1, Len(digits) - 1)) + digits[Len(digits)]

RECURSIVE Significant(_)
\* bytes without its leading zero bytes
Significant(bytes) ==
    IF bytes # <<>> /\ Head(bytes) = 0 THEN Significant(Tail(bytes)) ELSE bytes

\* int.from_bytes(bytes, 'big')
from_bytes(bytes) == Significant(bytes)

\* A to_bytes that keeps the low bytes of a value that is too wide
to_bytes_truncating(v, length) ==
    [ok |-> TRUE,
     bytes |-> IF Len(v) > length THEN SubSeq(v, Len(v) - length + 1, Len(v))
               ELSE [k \in 1..(length - Len(v)) |-> 0] \o v]

\* int.to_bytes(length, 'big'): [ok, bytes]; ok = FALSE is OverflowError
to_bytes(v, length) ==
    IF Len(v) > length THEN [ok |-> FALSE, bytes |-> <<>>]
    ELSE [ok |-> TRUE, bytes |-> [k \in 1..(length - Len(v)) |-> 0] \o v]

\* a frame that is given as bytes
Bytes(b) == [ok |-> TRUE, bytes |-> b]

\* socket.send_multipart of the frames items: [ok, frames]; ok = FALSE when
\* the encoding of an item raised, and then nothing is sent
Frames(items) ==
    IF \E k \in 1..Len(items) : ~items[k].ok THEN [ok |-> FALSE, frames |-> <<>>]
    ELSE [ok |-> TRUE, frames |-> [k \in 1..Len(items) |-> items[k].bytes]]

\* the text of a command
CommandText ==
    [c \in {"post-file", "post-chunk", "query-status", "error", "upload-approved",
            "upload-finished", "transfer-credit", "status-report"} |->
        CASE c = "post-file" -> <<"p", "o", "s", "t", "-", "f", "i", "l", "e">>
          [] c = "post-chunk" -> <<"p", "o", "s", "t", "-", "c", "h", "u", "n", "k">>
          [] c = "query-status" ->
                <<"q", "u", "e", "r", "y", "-", "s", "t", "a", "t", "u", "s">>
          [] c = "upload-approved" ->
                <<"u", "p", "l", "o", "a", "d", "-", "a", "p", "p", "r", "o", "v", "e", "d">>
          [] c = "upload-finished" ->
                <<"u", "p", "l", "o", "a", "d", "-", "f", "i", "n", "i", "s", "h", "e", "d">>
          [] c = "transfer-credit" ->
                <<"t", "r", "a", "n", "s", "f", "e", "r", "-", "c", "r", "e", "d", "i", "t">>
          [] c = "status-report" ->
                <<"s", "t", "a", "t", "u", "s", "-", "r", "e", "p", "o", "r", "t">>
          [] OTHER -> <<"e", "r", "r", "o", "r">>]

\* b"post-file", ...
CommandBytes(c) == utf8_encode(CommandText[c])

Quoted(chars) == <<"\"">> \o chars \o <<"\"">>

\* json.dumps of a meta object of the model
json_dumps(meta) ==
    LET pass == IF HasKey(meta, "passthrough")
                THEN << Quoted(<<"p", "a", "s", "s", "t", "h", "r", "o", "u", "g", "h">>)
                        \o <<":", " ">> \o Quoted(meta.passthrough) >>
                ELSE <<>>
        untar == IF HasKey(meta, "untar")
                 THEN << Quoted(<<"u", "n", "t", "a", "r">>) \o <<":", " ">>
                         \o Quoted(<<"T", "r", "u", "e">>) >>
                 ELSE <<>>
        items == pass \o untar
    IN  <<"{">> \o (IF items = <<>> THEN <<>>
                    ELSE IF Len(items) = 1 THEN items[1]
                    ELSE items[1] \o <<",", " ">> \o items[2]) \o <<"}">>

\* the meta objects whose JSON text the model knows
JsonMetas ==
    {[keys |-> {}, passthrough |-> <<>>, untar |-> ""],
     [keys |-> {"passthrough"}, passthrough |-> <<"t">>, untar |-> ""],
     [keys |-> {"passthrough", "untar"}, passthrough |-> <<"t">>, untar |-> "True"]}

\* json.loads: [ok, meta]; ok = FALSE is JSONDecodeError.  A text is JSON when
\* it is the text of one of JsonMetas.
json_loads(text) ==
    IF \E m \in JsonMetas : json_dumps(m) = text
    THEN [ok |-> TRUE, meta |-> CHOOSE m \in JsonMetas : json_dumps(m) = text]
    ELSE [ok |-> FALSE, meta |-> [keys |-> {}, passthrough |-> <<>>, untar |-> ""]]

\* the bytes of the socket identities
IdBytes == [c \in Conns |-> CASE c = "c1" -> <<1>> [] c = "c2" -> <<2>>
                                 [] c = "c3" -> <<3>> [] OTHER -> <<4>>]
\* the connection an identity frame names
ConnName(bytes) == CHOOSE c \in Conns : IdBytes[c] = bytes

\* None, for a connection id and for an origin
NoneId == ""

\* ClientConnection.send_post_file: [ok, frames], the frames the client sends
wire_post_file(name, meta) ==
    Frames(<< Bytes(CommandBytes("post-file")), to_bytes(Digits(0), 4),
              Bytes(utf8_encode(name)), Bytes(utf8_encode(json_dumps(meta))) >>)

\* ClientConnection.send_post_chunk
wire_post_chunk(seek, data, is_last, checksum) ==
    IF is_last
    THEN Frames(<< Bytes(CommandBytes("post-chunk")), to_bytes(Digits(1), 4),
                   to_bytes(seek, 8), Bytes(data), Bytes(checksum) >>)
    ELSE Frames(<< Bytes(CommandBytes("post-chunk")), to_bytes(Digits(0), 4),
                   to_bytes(seek, 8), Bytes(data) >>)

\* ClientConnection.send_query_status
wire_query_status == Frames(<< Bytes(CommandBytes("query-status")) >>)

\* ClientConnection.send_error and, after the identity frame,
\* ServerConnection.send_error
wire_error(code, msg) ==
    Frames(<< Bytes(CommandBytes("error")), to_bytes(code, 4),
              Bytes(utf8_encode(msg)) >>)

\* ServerConnection.send_upload_approved, after the identity frame
wire_upload_approved(chunksize, max_credit, credit) ==
    Frames(<< Bytes(CommandBytes("upload-approved")), to_bytes(credit, 4),
              to_bytes(chunksize, 4), to_bytes(max_credit, 4) >>)

\* ServerConnection.send_upload_finished
wire_upload_finished(upload_id) ==
    Frames(<< Bytes(CommandBytes("upload-finished")), Bytes(utf8_encode(upload_id)) >>)

\* ServerConnection.send_tranfer_credit
wire_tranfer_credit(amount) ==
    Frames(<< Bytes(CommandBytes("transfer-credit")), to_bytes(amount, 4) >>)

\* ServerConnection.send_status_report
wire_status_report(seek, credit) ==
    Frames(<< Bytes(CommandBytes("status-report")), to_bytes(seek, 8),
              to_bytes(credit, 4) >>)

\* What the ROUTER socket hands to recv_multipart: the identity of the peer,
\* then the frames it sent, every frame with the peer's User-Id
Routed(conn, user, parts) ==
    [k \in 1..(Len(parts) + 1) |->
        [bytes |-> IF k = 1 THEN IdBytes[conn] ELSE parts[k - 1], user |-> user]]

\* InvalidMessageError(desc, origin, connection_id)
InvalidMessage(origin, connection_id) ==
    [kind |-> "invalid", msg |-> [command |-> "none"], origin |-> origin,
     connection_id |-> connection_id, exc |-> "InvalidMessageError"]

Decoded(msg) ==
    [kind |-> "msg", msg |-> msg, origin |-> NoneId, connection_id |-> NoneId,
     exc |-> "none"]

\* an exception that is no InvalidMessageError
DecodeError(exc) ==
    [kind |-> "error", msg |-> [command |-> "none"], origin |-> NoneId,
     connection_id |-> NoneId, exc |-> exc]

\* check_len(frames, num, id_): does it raise?
check_len(frames, num) == Len(frames) < num

\* recv_msg_server, on the frames recv_multipart returned
recv_msg_server(frames) ==
    IF ~(Len(frames) >= 2) THEN InvalidMessage(NoneId, NoneId)
    ELSE
    LET connection == ConnName(frames[1].bytes)
        origin == frames[2].user
        command == frames[2].bytes
    IN  IF origin # NoneId /\ \E k \in 3..Len(frames) : frames[k].user # origin
        THEN InvalidMessage(NoneId, NoneId)
        ELSE IF command = CommandBytes("post-file")
        THEN IF check_len(frames, 5) THEN InvalidMessage(NoneId, NoneId)
             ELSE Only({
                IF ~name.ok THEN DecodeError("UnicodeDecodeError")
                ELSE Only({
                    IF ~text.ok THEN InvalidMessage(connection, NoneId)
                    ELSE Only({
                        IF ~meta.ok THEN InvalidMessage(connection, NoneId)
                        ELSE Decoded([command |-> "post-file", connection |-> connection,
                                      origin |-> origin,
                                      flags |-> from_bytes(frames[3].bytes),
                                      name |-> name.text, meta |-> meta.meta])
                        : meta \in {json_loads(text.text)} })
                    : text \in {utf8_decode(frames[5].bytes)} })
                : name \in {utf8_decode(frames[4].bytes)} })
        ELSE IF command = CommandBytes("post-chunk")
        THEN IF check_len(frames, 5) THEN InvalidMessage(NoneId, connection)
             ELSE IF from_bytes(frames[3].bytes) = Digits(1)
             THEN IF check_len(frames, 6) THEN InvalidMessage(NoneId, NoneId)
                  ELSE Decoded([command |-> "post-chunk", connection |-> connection,
                                origin |-> origin, is_last |-> TRUE,
                                seek |-> from_bytes(frames[4].bytes),
                                data |-> frames[5].bytes,
                                checksum |-> frames[6].bytes])
             ELSE Decoded([command |-> "post-chunk", connection |-> connection,
                           origin |-> origin, is_last |-> FALSE,
                           seek |-> from_bytes(frames[4].bytes),
                           data |-> frames[5].bytes, checksum |-> <<>>])
        ELSE IF command = CommandBytes("error")
        THEN IF check_len(frames, 4) THEN InvalidMessage(NoneId, connection)
             ELSE Only({
                IF ~text.ok THEN DecodeError("UnicodeDecodeError")
                ELSE Decoded([command |-> "error", connection |-> connection,
                              origin |-> origin,
                              code |-> from_bytes(frames[3].bytes),
                              msg |-> text.text])
                : text \in {utf8_decode(frames[4].bytes)} })
        ELSE IF command = CommandBytes("query-status")
        THEN Decoded([command |-> "query-status", connection |-> connection,
                      origin |-> origin])
        ELSE InvalidMessage(NoneId, NoneId)

\* recv_msg_client, on the frames recv_multipart returned
recv_msg_client(frames) ==
    IF Len(frames) = 0 THEN InvalidMessage(NoneId, NoneId)
    ELSE
    LET command == frames[1]
    IN  IF command = CommandBytes("error")
        THEN IF check_len(frames, 3) THEN InvalidMessage(NoneId, NoneId)
             ELSE Only({
                IF ~text.ok THEN DecodeError("UnicodeDecodeError")
                ELSE Decoded([command |-> "error", connection |-> NoneId,
                              origin |-> NoneId, code |-> from_bytes(frames[2]),
                              msg |-> text.text])
                : text \in {utf8_decode(frames[3])} })
        ELSE IF command = CommandBytes("transfer-credit")
        THEN IF check_len(frames, 2) THEN InvalidMessage(NoneId, NoneId)
             ELSE Decoded([command |-> "transfer-credit",
                           amount |-> from_bytes(frames[2])])
        ELSE IF command = CommandBytes("upload-approved")
        THEN IF check_len(frames, 4) THEN InvalidMessage(NoneId, NoneId)
             ELSE Decoded([command |-> "upload-approved",
                           credit |-> from_bytes(frames[2]),
                           chunksize |-> from_bytes(frames[3]),
                           max_credit |-> from_bytes(frames[4])])
        ELSE IF command = CommandBytes("upload-finished")
        THEN IF check_len(frames, 2) THEN InvalidMessage(NoneId, NoneId)
             ELSE Only({
                IF ~text.ok THEN DecodeError("UnicodeDecodeError")
                ELSE Decoded([command |-> "upload-finished", upload_id |-> text.text])
                : text \in {utf8_decode(frames[2])} })
        ELSE IF command = CommandBytes("status-report")
        THEN IF check_len(frames, 3) THEN InvalidMessage(NoneId, NoneId)
             ELSE Decoded([command |-> "status-report",
                           seek |-> from_bytes(frames[2]),
                           credit |-> from_bytes(frames[3])])
        ELSE InvalidMessage(NoneId, NoneId)

\* Server.serve, lines 233-237: the loop's answer to a message it could not
\* decode
serve_invalid(w, e) ==
    IF e.connection_id # NoneId
    THEN server_send_error(w, e.connection_id, 400, "Invalid message")
    ELSE w

-----------------------------------------------------------------------------
(* The state machine *)

\* An UploadFile object lives while the storage registers it or a session
\* holds it
Live(w) == w.files \cup {w.up[c].file : c \in DOMAIN w.up}

\* The state after a step of the server that ends in world w.  An exception
\* nothing catches ends Server.serve.
Commit(w, next_pc) ==
    /\ uploads' = w.uploads
    /\ up' = w.up
    /\ debt' = w.debt
    /\ last_active_check' = w.last_active_check
    /\ nfiles' = w.nfiles
    /\ fobj' = [i \in Live(w) |-> w.fobj[i]]
    /\ files' = w.files
    /\ destinations' = w.destinations
    /\ disk' = w.disk
    /\ dirs' = w.dirs
    /\ sent' = w.sent
    /\ ret' = w.ret
    /\ pc' = IF Raised(w) THEN "crashed" ELSE next_pc

NoEnv == [write_fails |-> FALSE, tar |-> "none"]

\* the loop has not received in this turn
Nothing == [msg |-> [command |-> "none"], env |-> NoEnv]

Dirs == {<<"manual", <<"t">>>>, <<"dropbox", "box1">>}

Init ==
    /\ uploads = <<>>
    /\ up = <<>>
    /\ debt = 0
    /\ last_active_check = 0
    /\ nfiles = 0
    /\ fobj = <<>>
    /\ files = {}
    /\ destinations = {}
    /\ disk = <<>>
    /\ dirs = Dirs
    /\ now = 0
    /\ pc = "top"
    /\ received = Nothing
    /\ sent = <<>>
    /\ ret = <<>>
    /\ client = NewClient
    /\ toServer = <<>>
    /\ toClient = <<>>
    /\ lost = 0
    /\ ignored = {}
    /\ ended = {}

\* The head of the serve loop: distribute credit, sweep timeouts, then block
\* in the receive
Top ==
    /\ pc = "top"
    /\ \E w \in {serve_top(Cur, now)} : Commit(w, "recv")
    /\ received' = Nothing
    /\ UNCHANGED now

LoopTop == Top /\ UNCHANGED cliVars

RECURSIVE SumOver(_, _)
\* the sum of f[x] over the x of the finite set S
SumOver(f, S) ==
    IF S = {} THEN 0
    ELSE LET x == CHOOSE y \in S : TRUE IN f[x] + SumOver(f, S \ {x})

\* The bound on the staging area: a chunk that would be written fits
Fits(msg, budget) ==
    (/\ msg.command = "post-chunk"
     /\ ~msg.is_last
     /\ msg.connection \in DOMAIN up
     /\ msg.seek = fobj[up[msg.connection].file].nbytes_written)
        => SumOver([i \in DOMAIN fobj |-> fobj[i].nbytes_written], DOMAIN fobj)
               + Len(msg.data) <= budget

\* The bound on the UploadFile objects of a run
Room(msg, most) ==
    msg.command = "post-file" => nfiles < most

\* The serve loop receives and handles one message
Recv(msg, env, budget, most) ==
    /\ pc = "recv"
    /\ Fits(msg, budget)
    /\ Room(msg, most)
    /\ \E w \in {serve_msg(Cur, msg, env, now)} : Commit(w, "top")
    /\ received' = [msg |-> msg, env |-> env]
    /\ UNCHANGED now

\* Time passes while the loop waits for a message (a turn of the loop takes
\* no time)
Tick(d) ==
    /\ pc = "recv"
    /\ now + d <= MaxTime
    /\ now' = now + d
    /\ UNCHANGED <<srvVars, stoVars, pc, received, sent, ret, cliVars>>

\* Someone removes a destination directory and what has landed in it, while
\* the loop waits for a message
RemoveDir(d) ==
    /\ pc = "recv"
    /\ d \in dirs
    /\ dirs' = dirs \ {d}
    /\ disk' = [p \in {q \in DOMAIN disk : dirname(q) # d} |-> disk[p]]
    /\ UNCHANGED <<srvVars, nfiles, fobj, files, destinations, now, pc, received,
                   sent, ret, cliVars>>

-----------------------------------------------------------------------------
(* The messages recv_msg_server decodes (src/dync/messages.py:90-134)      *)

PostFileMsgs(conns, origins, names, metas) ==
    [command : {"post-file"}, connection : conns, origin : origins,
     flags : {0}, name : names, meta : metas]

PostChunkMsgs(conns, origins, seeks, datas, checksums) ==
    [command : {"post-chunk"}, connection : conns, origin : origins,
     is_last : {FALSE}, seek : seeks, data : datas, checksum : {<<>>}]
    \cup
    [command : {"post-chunk"}, connection : conns, origin : origins,
     is_last : {TRUE}, seek : seeks, data : {<<>>}, checksum : checksums]

QueryStatusMsgs(conns, origins) ==
    [command : {"query-status"}, connection : conns, origin : origins]

ErrorMsgs(conns, origins) ==
    [command : {"error"}, connection : conns, origin : origins,
     code : {400}, msg : {"Client shutting down"}]

\* what the environment may do to the handling of a message
Envs(msg) ==
    IF msg.command = "post-chunk" /\ ~msg.is_last
    THEN [write_fails : BOOLEAN, tar : {"none"}]
    ELSE IF msg.command = "post-chunk"
    THEN [write_fails : {FALSE}, tar : {"none", "many", "noroot", "ok"}]
    ELSE {NoEnv}

(* Spec: two peers that send what they like, and a file system that may   *)
(* lose a directory                                                        *)

PassT == [keys |-> {"passthrough"}, passthrough |-> <<"t">>, untar |-> ""]
PassTUntar == [keys |-> {"passthrough", "untar"}, passthrough |-> <<"t">>,
               untar |-> "True"]
PassBad == [keys |-> {"passthrough"}, passthrough |-> <<"t", "/">>, untar |-> ""]
NoMeta == [keys |-> {}, passthrough |-> <<>>, untar |-> ""]
\* "a" and "a!" clean to the same name; "..", "t/x" and ".b" are refused
Names == {<<"a">>, <<"a", "!">>, <<"b">>, <<".", ".">>, <<"t", "/", "x">>,
          <<".", "b">>}
Datas == {<<"x", "y">>}
Checksums == {digest(<<>>), digest(<<"x", "y">>)}

Msgs ==
    PostFileMsgs({"c1"}, {"u1"}, Names, {PassT})
    \cup PostFileMsgs({"c1"}, {"u1"}, {<<"a">>, <<"b">>}, {NoMeta, PassBad})
    \cup PostFileMsgs({"c2"}, {"u2"}, {<<"a">>, <<"b">>}, {PassT, PassTUntar})
    \cup PostFileMsgs({"c2"}, {"u2"}, {<<"b">>}, {NoMeta})
    \cup PostChunkMsgs({"c1"}, {"u1"}, {0, 2}, Datas, Checksums)
    \cup PostChunkMsgs({"c2"}, {"u2"}, {0, 2}, Datas, Checksums)
    \cup QueryStatusMsgs(Conns2, Origins)
    \cup ErrorMsgs({"c1"}, {"u1"})
    \cup ErrorMsgs({"c2"}, {"u2"})

Receive ==
    \E msg \in Msgs : \E env \in Envs(msg) :
        Recv(msg, env, MaxBytes, MaxFiles) /\ UNCHANGED cliVars
Clock == Tick(TIMEOUT + 1)
Rmtree == RemoveDir(<<"manual", <<"t">>>>)

Next == LoopTop \/ Receive \/ Clock \/ Rmtree

Spec == Init /\ [][Next]_vars

\* The loop runs when it can and time passes; whether a peer sends another
\* message is up to the peers
SpecIdle == Spec /\ WF_vars(LoopTop) /\ WF_vars(Clock)

(* SpecWritten: the serve loop over Server._add_upload as line 155 has it  *)

ReceiveAsWritten ==
    \E msg \in Msgs : \E env \in Envs(msg) :
        /\ pc = "recv"
        /\ \E w \in {serve_msg_as_written(Cur, msg, env, now)} : Commit(w, "top")
        /\ received' = [msg |-> msg, env |-> env]
        /\ UNCHANGED <<now, cliVars>>

NextWritten == LoopTop \/ ReceiveAsWritten \/ Clock

SpecWritten == Init /\ [][NextWritten]_vars

(* SpecFlow: four peers, each with its own user and file, that send        *)
(* one-byte chunks                                                         *)

OriginOf == [c \in Conns |-> IF c = "c1" THEN "u1" ELSE "u2"]
NameOf == [c \in Conns |-> CASE c = "c1" -> <<"a">> [] c = "c2" -> <<"b">>
                                 [] c = "c3" -> <<"x">> [] OTHER -> <<"t">>]

FlowMsgs ==
    UNION {PostFileMsgs({c}, {OriginOf[c]}, {NameOf[c]}, {PassT})
           \cup PostChunkMsgs({c}, {OriginOf[c]}, 0..1, {<<"x">>},
                            {digest(<<>>), digest(<<"x">>)})
           \cup QueryStatusMsgs({c}, {OriginOf[c]})
           \cup ErrorMsgs({c}, {OriginOf[c]}) : c \in Conns}

\* the peers are named in the order in which they connect
ConnSeq == <<"c1", "c2", "c3", "c4">>
InTurn(msg) ==
    msg.command = "post-file" =>
        nfiles < Len(ConnSeq) /\ msg.connection = ConnSeq[nfiles + 1]

FlowReceive ==
    \E msg \in FlowMsgs : \E env \in [write_fails : BOOLEAN, tar : {"none"}] :
        InTurn(msg) /\ Recv(msg, env, FlowBytes, Len(ConnSeq)) /\ UNCHANGED cliVars

NextFlow == LoopTop \/ FlowReceive \/ Clock

SpecFlow == Init /\ [][NextFlow]_vars

(* SpecPass: five peers connect one after the other; each may send a first *)
(* chunk or give up                                                        *)

PassSeq == <<"c1", "c2", "c3", "c4", "c5">>
PassName == <<<<"a">>, <<"b">>, <<"x">>, <<"t">>, <<"a", "b">>>>

PassMsgs ==
    UNION {PostFileMsgs({PassSeq[k]}, {"u1"}, {PassName[k]}, {PassT})
           \cup PostChunkMsgs({PassSeq[k]}, {"u1"}, {0}, {<<"x">>}, {digest(<<>>)})
           \cup ErrorMsgs({PassSeq[k]}, {"u1"}) : k \in 1..Len(PassSeq)}

PassReceive ==
    \E msg \in PassMsgs : \E env \in Envs(msg) :
        /\ msg.command = "post-file" =>
              nfiles < Len(PassSeq) /\ msg.connection = PassSeq[nfiles + 1]
        /\ Recv(msg, env, FlowBytes, Len(PassSeq))
        /\ UNCHANGED cliVars

NextPass == LoopTop \/ PassReceive \/ Clock

SpecPass == Init /\ [][NextPass]_vars

(* SpecClient: the client uploads its source to the server over a network  *)
(* that keeps the order of the messages and may lose some                  *)

srvState == <<srvVars, stoVars, now, pc, received, sent, ret>>

\* Upload.__init__ posts the file
ClientConnect ==
    /\ client.pc = "start"
    /\ client' = [client EXCEPT !.pc = "init"]
    /\ toServer' = Append(toServer, client_post_file(PostedName, PostedMeta))
    /\ UNCHANGED <<srvState, toClient, lost, ignored, ended>>

\* Upload.__init__ receives the reply
ClientApproved ==
    /\ client.pc = "init"
    /\ toClient # <<>>
    /\ client' = approved(client, Head(toClient))
    /\ toClient' = Tail(toClient)
    /\ UNCHANGED <<srvState, toServer, lost, ignored, ended>>

\* one turn of the loop of send_chunks
ClientSendChunk ==
    /\ client.pc = "send"
    /\ \E r \in {send_chunk(client)} :
          /\ client' = r.c
          /\ toServer' = toServer \o r.out
    /\ UNCHANGED <<srvState, toClient, lost, ignored, ended>>

\* _recv_server_status receives a message
ClientRecv ==
    /\ client.pc = "recv"
    /\ toClient # <<>>
    /\ client' = recv_server_status(client, Head(toClient))
    /\ toClient' = Tail(toClient)
    /\ UNCHANGED <<srvState, toServer, lost, ignored, ended>>

\* the receive of the client times out (zmq.Again): Upload.__init__ does not
\* catch it; _recv_server_status asks for the status, RETRIES times at most
ClientTimeout ==
    /\ client.pc \in {"init", "recv"}
    /\ client.queries < MaxQueries
    /\ IF client.pc = "init"
       THEN /\ client' = [client EXCEPT !.pc = "failed", !.queries = @ + 1]
            /\ UNCHANGED toServer
       ELSE /\ client' = [client EXCEPT !.queries = @ + 1, !.retries = @ + 1,
                                        !.pc = IF client.retries + 1 >= RETRIES
                                               THEN "failed" ELSE "recv"]
            /\ toServer' = Append(toServer, client_query_status)
    /\ UNCHANGED <<srvState, toClient, lost, ignored, ended>>

\* the messages of a server step, on their way to the client
Delivered(s) == [k \in 1..Len(s) |-> s[k].msg]

ServerTop ==
    /\ Top
    /\ toClient' = toClient \o Delivered(sent')
    /\ UNCHANGED <<client, toServer, lost, ignored, ended>>

\* how a chunk misses the position of its session's staging file, if it does
PassedOver(msg) ==
    IF msg.command = "post-chunk" /\ msg.connection \in DOMAIN up
    THEN LET written == fobj[up[msg.connection].file].nbytes_written IN
         IF msg.seek < written THEN {"duplicate"}
         ELSE IF msg.seek > written THEN {"ahead"}
         ELSE {}
    ELSE {}

ServerRecv ==
    /\ toServer # <<>>
    /\ LET msg == Head(toServer) IN
          /\ \E env \in Envs(msg) : Recv(msg, env, SourceLen, 1)
          /\ ignored' = ignored \cup PassedOver(msg)
    /\ toServer' = Tail(toServer)
    /\ toClient' = toClient \o Delivered(sent')
    /\ UNCHANGED <<client, lost, ended>>

\* s without its k-th element
Without(s, k) == SubSeq(s, 1, k - 1) \o SubSeq(s, k + 1, Len(s))

\* the network loses a message
Lose ==
    /\ lost < MaxLost
    /\ lost' = lost + 1
    /\ \/ \E k \in 1..Len(toServer) :
             toServer' = Without(toServer, k) /\ UNCHANGED toClient
       \/ \E k \in 1..Len(toClient) :
             toClient' = Without(toClient, k) /\ UNCHANGED toServer
    /\ UNCHANGED <<srvState, client, ignored, ended>>

NextClient ==
    \/ ClientConnect \/ ClientApproved \/ ClientSendChunk \/ ClientRecv
    \/ ClientTimeout \/ ServerTop \/ ServerRecv \/ Lose

SpecClient == Init /\ [][NextClient]_vars

(* SpecCredit: the client uploads over a network that loses nothing, while *)
(* four other peers take, use and give back credit                         *)

OtherSeq == <<"c2", "c3", "c4", "c5">>
OtherName == <<<<"a">>, <<"b">>, <<"x">>, <<"t">>>>

\* what the other peers send: each posts a file, the second writes a chunk,
\* the first, the third and the last give up
OtherMsgs ==
    UNION {PostFileMsgs({OtherSeq[k]}, {"u2"}, {OtherName[k]}, {PassT})
           : k \in 1..Len(OtherSeq)}
    \cup PostChunkMsgs({"c3"}, {"u2"}, {0}, {<<"x">>}, {digest(<<>>)})
    \cup ErrorMsgs({"c2", "c4", "c5"}, {"u2"})

\* the other peers connect in the order of OtherSeq, before the client does
OtherInTurn(msg) ==
    msg.command = "post-file" =>
        /\ client.pc = "start"
        /\ nfiles < Len(OtherSeq)
        /\ msg.connection = OtherSeq[nfiles + 1]

\* the messages of a server step that go to the client
ToClient(s) == Delivered(SelectSeq(s, LAMBDA m : m.to = ClientConn))

CreditTop ==
    /\ Top
    /\ toClient' = toClient \o ToClient(sent')
    /\ UNCHANGED <<client, toServer, lost, ignored, ended>>

CreditRecv ==
    /\ toServer # <<>>
    /\ \E env \in Envs(Head(toServer)) :
          Recv(Head(toServer), env, SourceLen + 1, Len(OtherSeq) + 1)
    /\ ignored' = ignored \cup PassedOver(Head(toServer))
    /\ toServer' = Tail(toServer)
    /\ toClient' = toClient \o ToClient(sent')
    /\ UNCHANGED <<client, lost, ended>>

OtherRecv ==
    \E msg \in OtherMsgs : \E env \in [write_fails : {FALSE}, tar : {"none"}] :
        /\ OtherInTurn(msg)
        /\ Recv(msg, env, SourceLen + 1, Len(OtherSeq) + 1)
        /\ toClient' = toClient \o ToClient(sent')
        /\ UNCHANGED <<client, toServer, lost, ignored, ended>>

NextCredit ==
    \/ ClientConnect \/ ClientApproved \/ ClientSendChunk \/ ClientRecv
    \/ ClientTimeout \/ CreditTop \/ CreditRecv \/ OtherRecv

SpecCredit == Init /\ [][NextCredit]_vars

(* SpecProgress: the client and three other peers that end their uploads,  *)
(* over a network that loses nothing; the receive of the client times out  *)
(* when nothing is under way                                               *)

EndingSeq == <<"c2", "c3", "c4">>

\* how another peer ends its upload: with the last chunk of an empty source,
\* or with an error
EndMsgs ==
    UNION {PostChunkMsgs({c}, {"u2"}, {0}, {}, {digest(<<>>)})
           \cup ErrorMsgs({c}, {"u2"}) : c \in Conns \ {ClientConn}}

\* the other peers connect in the order of EndingSeq, before the client does
OtherConnect ==
    \E k \in 1..Len(EndingSeq) :
        \E msg \in PostFileMsgs({EndingSeq[k]}, {"u2"}, {OtherName[k]}, {PassT}) :
            /\ client.pc = "start"
            /\ nfiles = k - 1
            /\ Recv(msg, NoEnv, SourceLen, Len(EndingSeq) + 1)
            /\ UNCHANGED cliVars

OtherEnds ==
    \E msg \in EndMsgs : \E env \in Envs(msg) :
        /\ msg.connection \in DOMAIN up
        /\ Recv(msg, env, SourceLen, Len(EndingSeq) + 1)
        /\ UNCHANGED cliVars

ProgressRecv ==
    /\ toServer # <<>>
    /\ \E env \in Envs(Head(toServer)) :
          Recv(Head(toServer), env, SourceLen, Len(EndingSeq) + 1)
    /\ toServer' = Tail(toServer)
    /\ toClient' = toClient \o ToClient(sent')
    /\ UNCHANGED <<client, lost, ignored, ended>>

\* The receive of _recv_server_status times out while the server waits and
\* no message is on its way: the client asks for the status
QuietTimeout ==
    /\ client.pc = "recv"
    /\ pc = "recv"
    /\ toServer = <<>>
    /\ toClient = <<>>
    /\ client' = [client EXCEPT !.queries = Min(@ + 1, MaxQueries),
                                !.retries = @ + 1,
                                !.pc = IF client.retries + 1 >= RETRIES
                                       THEN "failed" ELSE "recv"]
    /\ toServer' = Append(toServer, client_query_status)
    /\ UNCHANGED <<srvState, toClient, lost, ignored, ended>>

NextProgress ==
    \/ ClientConnect \/ ClientApproved \/ ClientSendChunk \/ ClientRecv
    \/ QuietTimeout \/ CreditTop \/ ProgressRecv \/ OtherConnect \/ OtherEnds

\* The client and the server run when they can, and each of the other peers
\* ends its upload at some time
SpecProgress ==
    /\ Init /\ [][NextProgress]_vars
    /\ WF_vars(ClientApproved) /\ WF_vars(ClientSendChunk) /\ WF_vars(ClientRecv)
    /\ WF_vars(QuietTimeout) /\ WF_vars(CreditTop) /\ WF_vars(ProgressRecv)
    /\ SF_vars(OtherEnds)

(* SpecEnded: three of the peers of SpecFlow, with a record of the         *)
(* connections a session of which the server has ended with a message;     *)
(* such a peer may post a file again                                       *)

EndedSeq == <<"c1", "c2", "c3">>
EndedMsgs == {msg \in FlowMsgs : \E k \in 1..Len(EndedSeq) : msg.connection = EndedSeq[k]}

\* the messages that end an upload for the client
Terminal == {"upload-finished", "error"}

\* the messages of s to conn whose command is among commands
MsgsTo(s, conn, commands) ==
    SelectSeq(s, LAMBDA m : m.to = conn /\ m.msg.command \in commands)

\* the connections whose session this step of the loop sends upload-finished
\* or an error (the errors of a step that handles a post-file are those of
\* Server.send_error, not of a session)
SessionEnds ==
    {c \in DOMAIN up : /\ received'.msg.command # "post-file"
                       /\ MsgsTo(sent', c, Terminal) # <<>>}

\* the peers connect in the order of EndedSeq; a peer whose session the
\* server has ended may post again
MayPost(msg) ==
    msg.command = "post-file" =>
        \/ nfiles < Len(EndedSeq) /\ msg.connection = EndedSeq[nfiles + 1]
        \/ msg.connection \in ended

EndedTop ==
    /\ Top
    /\ ended' = ended \cup SessionEnds
    /\ UNCHANGED <<client, toServer, toClient, lost, ignored>>

EndedReceive ==
    \E msg \in EndedMsgs : \E env \in [write_fails : BOOLEAN, tar : {"none"}] :
        /\ MayPost(msg)
        /\ Recv(msg, env, FlowBytes, Len(EndedSeq) + 1)
        /\ ended' = ended \cup SessionEnds
        /\ UNCHANGED <<client, toServer, toClient, lost, ignored>>

NextEnded == EndedTop \/ EndedReceive \/ Clock

SpecEnded == Init /\ [][NextEnded]_vars

(* SpecLong: two peers that upload files of a short name and of the        *)
(* shortest name whose marker the file system does not take                *)

LongName == [k \in 1..(NAME_MAX - Len(FINISHED_MARKER) + 1) |-> "a"]

LongMsgs ==
    PostFileMsgs(Conns2, {"u1"}, {LongName, <<"b">>}, {PassT, PassTUntar})
    \cup PostChunkMsgs(Conns2, {"u1"}, 0..MaxBytes, Datas, Checksums)
    \cup QueryStatusMsgs(Conns2, {"u1"})
    \cup ErrorMsgs(Conns2, {"u1"})

LongReceive ==
    \E msg \in LongMsgs : \E env \in Envs(msg) :
        Recv(msg, env, MaxBytes, MaxFiles) /\ UNCHANGED cliVars

NextLong == LoopTop \/ LongReceive

SpecLong == Init /\ [][NextLong]_vars

(* SpecCodec: two peers that send frames, well formed or not, to the loop  *)

\* the chunk a peer sends: b"xy"
WireData == utf8_encode(<<"x", "y">>)

\* what a peer's messages are made of
WireParts ==
    LET post_file == wire_post_file(<<"a">>, PassT).frames
        chunk == wire_post_chunk(Digits(0), WireData, FALSE, <<>>).frames
        last == wire_post_chunk(Digits(Len(WireData)), <<>>, TRUE,
                                digest(WireData)).frames
        empty == wire_post_chunk(Digits(0), <<>>, TRUE, digest(<<>>)).frames
        error == wire_error(Digits(400), <<"b", "y", "e">>).frames
    IN  { post_file, chunk, last, empty, error, wire_query_status.frames,
          \* frames are missing
          SubSeq(post_file, 1, 3), SubSeq(chunk, 1, 3), SubSeq(last, 1, 4),
          SubSeq(error, 1, 2),
          \* the meta is no JSON, or no UTF-8; the name is no UTF-8
          [post_file EXCEPT ![4] = utf8_encode(<<"{">>)],
          [post_file EXCEPT ![4] = <<255>>],
          [post_file EXCEPT ![3] = <<255>>],
          \* the text of the error is no UTF-8
          [error EXCEPT ![3] = <<255>>],
          \* the command is none of the protocol
          << utf8_encode(<<"x">>) >> }

\* what a peer sends under the identity of another peer's connection
ForeignParts ==
    { wire_post_chunk(Digits(0), WireData, FALSE, <<>>).frames,
      wire_post_chunk(Digits(Len(WireData)), <<>>, TRUE, digest(WireData)).frames,
      wire_post_chunk(Digits(0), <<>>, TRUE, digest(<<>>)).frames,
      wire_error(Digits(400), <<"b", "y", "e">>).frames,
      wire_query_status.frames }

\* the frames the socket hands to the loop: those of the two peers, those a
\* peer sends under the other's identity, and a message one frame of which
\* has the User-Id of another peer
Wire ==
    {Routed("c1", "u1", parts) : parts \in WireParts}
    \cup {Routed("c2", "u2", parts) : parts \in WireParts}
    \cup {Routed("c1", "u2", parts) : parts \in ForeignParts}
    \cup {[Routed("c1", "u1", wire_post_file(<<"a">>, PassT).frames)
              EXCEPT ![3].user = "u2"]}

\* The message msg of recv_msg_server with its integers as the handlers
\* compute with them
Narrow(msg) ==
    [f \in DOMAIN msg |->
        IF f \in {"flags", "seek", "code"} THEN ValueOf(msg[f]) ELSE msg[f]]

\* The loop receives frames recv_msg_server refuses
RecvInvalid(frames, e) ==
    /\ pc = "recv"
    /\ \E w \in {serve_invalid(Cur, e)} : Commit(w, "top")
    /\ received' = [msg |-> [command |-> "invalid", frames |-> frames], env |-> NoEnv]
    /\ UNCHANGED <<now, cliVars>>

\* The loop receives frames on which recv_msg_server raises an exception
\* that Server.serve does not catch
RecvCrash(frames, e) ==
    /\ pc = "recv"
    /\ \E w \in {Raise(Cur, e.exc)} : Commit(w, "top")
    /\ received' = [msg |-> [command |-> "undecodable", frames |-> frames],
                    env |-> NoEnv]
    /\ UNCHANGED <<now, cliVars>>

ReceiveFrames ==
    \E frames \in Wire : \E r \in {recv_msg_server(frames)} :
        \/ r.kind = "msg" /\ Recv(Narrow(r.msg), NoEnv, CodecBytes, CodecFiles)
                          /\ UNCHANGED cliVars
        \/ r.kind = "invalid" /\ RecvInvalid(frames, r)
        \/ r.kind = "error" /\ RecvCrash(frames, r)

NextCodec == LoopTop \/ ReceiveFrames \/ Clock

SpecCodec == Init /\ [][NextCodec]_vars

-----------------------------------------------------------------------------
(* SpecRetry: the client waits for a server that goes out of reach: the    *)
(* queries of its first MaxQueries receive timeouts may arrive, the later  *)
(* ones are lost on their way                                              *)

\* A receive timeout after which the client goes on waiting, however many
\* there were before
WaitTimeoutNoLimit ==
    /\ client.pc = "recv"
    /\ client' = [client EXCEPT !.queries = Min(@ + 1, MaxQueries),
                                !.retries = Min(@ + 1, RETRIES)]
    /\ toServer' = IF client.queries < MaxQueries
                   THEN Append(toServer, client_query_status)
                   ELSE toServer
    /\ UNCHANGED <<srvState, toClient, lost, ignored, ended>>

\* the receive of _recv_server_status times out (zmq.Again): the client asks
\* for the status, and after RETRIES timeouts in a row the loop is exhausted
WaitTimeout ==
    /\ client.pc = "recv"
    /\ client' = [client EXCEPT !.queries = Min(@ + 1, MaxQueries),
                                !.retries = @ + 1,
                                !.pc = IF client.retries + 1 >= RETRIES
                                       THEN "failed" ELSE "recv"]
    /\ toServer' = IF client.queries < MaxQueries
                   THEN Append(toServer, client_query_status)
                   ELSE toServer
    /\ UNCHANGED <<srvState, toClient, lost, ignored, ended>>

NextRetry ==
    \/ ClientConnect \/ ClientApproved \/ ClientSendChunk \/ ClientRecv
    \/ WaitTimeout \/ ServerTop \/ ServerRecv \/ Lose

SpecRetry == Init /\ [][NextRetry]_vars

\* a receive that blocks returns when RCVTIMEO has passed (client.py:124)
SpecRetryLive == SpecRetry /\ WF_vars(WaitTimeout)

-----------------------------------------------------------------------------
(* SpecWire: a ClientConnection and a ServerConnection send messages of    *)
(* every kind, and the other side decodes the frames                       *)

\* integers of up to 4 bytes: 0, 1, 256, 2^32 - 1
U32 == {Digits(0), Digits(1), Digits(256), <<255, 255, 255, 255>>}
\* 2^32 and 2^64
Over32 == {<<1, 0, 0, 0, 0>>, <<1, 0, 0, 0, 0, 0, 0, 0, 0>>}
\* integers of up to 8 bytes: 0, 2^32, 2^64 - 1
U64 == {Digits(0), <<1, 0, 0, 0, 0>>, <<255, 255, 255, 255, 255, 255, 255, 255>>}
\* 2^64
Over64 == {<<1, 0, 0, 0, 0, 0, 0, 0, 0>>}

WireTexts == {<<>>, <<"b", "y", "e">>}

\* the calls of the send methods of a ClientConnection
ClientCalls ==
    [command : {"post-file"}, flags : {Digits(0)}, name : WireTexts,
     meta : JsonMetas]
    \cup [command : {"post-chunk"}, is_last : {FALSE}, seek : U64 \cup Over64,
          data : {<<>>, WireData}, checksum : {<<>>}]
    \cup [command : {"post-chunk"}, is_last : {TRUE}, seek : U64 \cup Over64,
          data : {<<>>, WireData}, checksum : {digest(WireData)}]
    \cup [command : {"query-status"}]
    \cup [command : {"error"}, code : U32 \cup Over32, msg : WireTexts]

\* the calls of the send methods of a ServerConnection
ServerCalls ==
    [command : {"error"}, code : U32 \cup Over32, msg : WireTexts]
    \cup [command : {"upload-approved"}, credit : U32 \cup Over32,
          chunksize : U32 \cup Over32, max_credit : U32 \cup Over32]
    \cup [command : {"upload-finished"}, upload_id : WireTexts]
    \cup [command : {"transfer-credit"}, amount : U32 \cup Over32]
    \cup [command : {"status-report"}, seek : U64 \cup Over64,
          credit : U32 \cup Over32]

\* the method of ClientConnection that the call m is
client_send(m) ==
    CASE m.command = "post-file" -> wire_post_file(m.name, m.meta)
      [] m.command = "post-chunk" ->
            wire_post_chunk(m.seek, m.data, m.is_last, m.checksum)
      [] m.command = "error" -> wire_error(m.code, m.msg)
      [] OTHER -> wire_query_status

\* the method of ServerConnection that the call m is
server_send(m) ==
    CASE m.command = "upload-approved" ->
            wire_upload_approved(m.chunksize, m.max_credit, m.credit)
      [] m.command = "upload-finished" -> wire_upload_finished(m.upload_id)
      [] m.command = "transfer-credit" -> wire_tranfer_credit(m.amount)
      [] m.command = "status-report" -> wire_status_report(m.seek, m.credit)
      [] OTHER -> wire_error(m.code, m.msg)

\* the send method raised exc and nothing was sent
Unsent(exc) ==
    [kind |-> "unsent", msg |-> [command |-> "none"], origin |-> NoneId,
     connection_id |-> NoneId, exc |-> exc]

\* A send method is called while nothing is in flight: the frames go to the
\* socket, or the method raises OverflowError
WireSend(m, p, queue, other) ==
    /\ toServer = <<>> /\ toClient = <<>>
    /\ received' = [msg |-> m, env |-> NoEnv]
    /\ IF p.ok THEN queue' = <<p.frames>> /\ ret' = <<>>
       ELSE queue' = queue /\ ret' = <<Unsent("OverflowError")>>
    /\ UNCHANGED <<srvVars, stoVars, now, pc, sent, client, other, lost, ignored, ended>>

ClientSends ==
    \E m \in ClientCalls : \E p \in {client_send(m)} :
        WireSend(m, p, toServer, toClient)

ServerSends ==
    \E m \in ServerCalls : \E p \in {server_send(m)} :
        WireSend(m, p, toClient, toServer)

\* recv_msg_server on the frames of the client, behind the identity frame
\* the ROUTER socket adds
ServerReceives ==
    /\ toServer # <<>>
    /\ ret' = <<recv_msg_server(Routed("c1", "u1", Head(toServer)))>>
    /\ toServer' = Tail(toServer)
    /\ UNCHANGED <<srvVars, stoVars, now, pc, received, sent, client, toClient,
                   lost, ignored, ended>>

\* recv_msg_client on the frames of the server
ClientReceives ==
    /\ toClient # <<>>
    /\ ret' = <<recv_msg_client(Head(toClient))>>
    /\ toClient' = Tail(toClient)
    /\ UNCHANGED <<srvVars, stoVars, now, pc, received, sent, client, toServer,
                   lost, ignored, ended>>

NextWire == ClientSends \/ ServerSends \/ ServerReceives \/ ClientReceives

SpecWire == Init /\ [][NextWire]_vars

-----------------------------------------------------------------------------
(* SpecExit: the serve loop of two peers, ended by an exception or an       *)
(* interrupt; the Server context is left, then the Storage context          *)

ExitMsgs ==
    PostFileMsgs({"c1"}, {"u1"}, {<<"a">>, TarRoot}, {PassT})
    \cup PostFileMsgs({"c2"}, {"u2"}, {<<"b">>}, {PassT, PassTUntar})
    \cup PostChunkMsgs(Conns2, Origins, {0, 2}, Datas, Checksums)
    \cup ErrorMsgs({"c1"}, {"u1"})

ExitReceive ==
    \E msg \in ExitMsgs : \E env \in Envs(msg) :
        Recv(msg, env, MaxBytes, MaxFiles) /\ UNCHANGED cliVars

\* serve is left (an exception nothing caught, or an interrupt while the
\* loop runs or waits) and Server.__exit__ runs
ServerExit ==
    /\ pc \in {"top", "recv", "crashed"}
    /\ \E w \in {server_exit(Cur)} : Commit(w, "exited")
    /\ received' = Nothing
    /\ UNCHANGED <<now, cliVars>>

\* Storage.__exit__ runs, the Server context being left; received notes
\* the files that were registered when it began
StorageExit ==
    /\ pc = "exited"
    /\ \E w \in {storage_exit(Cur)} : Commit(w, "closed")
    /\ received' = [msg |-> [command |-> "storage-exit", files |-> files],
                    env |-> NoEnv]
    /\ UNCHANGED <<now, cliVars>>

NextExit == LoopTop \/ ExitReceive \/ Clock \/ Rmtree \/ ServerExit \/ StorageExit

SpecExit == Init /\ [][NextExit]_vars

(* Flow control *)

\* the credit the sessions of the uploads map hold
CreditSum == SumOver([c \in DOMAIN up |-> up[c].credit], DOMAIN up)

\* is a message of this command among those the last step sent?
Sent(command) == \E k \in 1..Len(sent) : sent[k].msg.command = command

\* C1: whenever the serve loop is about to block in the receive, the debt is
\* the sum of the credit of the sessions in the uploads map.
DebtIsCreditAtRest == pc = "recv" => debt = CreditSum

\* C1's case: the loop blocks after a pass that transferred credit, two
\* sessions or more hold credit, and a session has ended before
C1_Witness ==
    /\ pc = "recv"
    /\ Sent("transfer-credit")
    /\ Len(uploads) >= 2
    /\ nfiles > Len(uploads)
    /\ debt > 0

\* C2: every session's credit is within 0..MAX_CREDIT in every reachable
\* state, whatever the peer sends.
CreditInBounds ==
    \A c \in DOMAIN up : 0 <= up[c].credit /\ up[c].credit <= MAX_CREDIT

\* C3: 0 <= debt <= MAX_DEBT + MAX_CREDIT in every reachable state.
DebtInBounds == 0 <= debt /\ debt <= MAX_DEBT + MAX_CREDIT

-----------------------------------------------------------------------------
(* Storage bookkeeping *)

\* the files the sessions of the uploads map hold
SessionFiles == {up[c].file : c \in DOMAIN up}

\* C4: between messages every registered staging file and every reserved
\* destination belongs to a session that is still in the uploads map.
NoStaleReservation ==
    pc = "recv" =>
        /\ files \subseteq SessionFiles
        /\ destinations \subseteq {fobj[i].destination : i \in SessionFiles}

-----------------------------------------------------------------------------
(* What the handling of one message does.  In a step that leaves the       *)
(* receive, received' is the message handled and the unprimed variables    *)
(* are the state it met.                                                   *)

\* this step is the handling of a message
Handling == pc = "recv" /\ pc' # "recv"

\* this step hands a post-chunk to the session of its connection
HandlingChunk ==
    /\ Handling
    /\ received'.msg.command = "post-chunk"
    /\ received'.msg.connection \in DOMAIN up
    /\ up[received'.msg.connection].origin = received'.msg.origin

\* the staging file of the session msg goes to
FileOf(msg) == fobj[up[msg.connection].file]

InOrder(msg) == msg.seek = FileOf(msg).nbytes_written

\* the step sent one message: an error to conn
ErrorReply(conn, code, text) ==
    <<[to |-> conn, msg |-> [command |-> "error", code |-> code, msg |-> text]]>>

\* C5: a last post-chunk with seek = nbytes_written and a checksum that is
\* not the running SHA-256 is answered with error(500, "Failed finalizing
\* file: checksum mismatch"), handle_msg reports finished, and the storage
\* has no destination reserved for the upload afterwards.
ChecksumMismatchReleases ==
    [][LET msg == received'.msg IN
        (/\ HandlingChunk /\ msg.is_last /\ InOrder(msg)
         /\ msg.checksum # digest(FileOf(msg).hasher))
        => /\ sent' = ErrorReply(msg.connection, 500,
                                 "Failed finalizing file: checksum mismatch")
           /\ ret'[1]
           /\ FileOf(msg).destination \notin destinations']_vars

\* does finalize get as far as the rename, and where to?
ReachesRename(f, env) ==
    ~(f.untar /\ f.hasher # <<>> /\ env.tar \in {"many", "noroot"})
RenameTarget(f, env) ==
    IF f.untar /\ f.hasher # <<>> /\ env.tar = "ok"
    THEN <<dirname(f.destination), TarRoot>>
    ELSE f.destination

\* C6: when the rename to the destination fails during finalize, handle_msg
\* reports finished, an error reply goes to the client, and the staging file
\* is no longer registered with the storage (num_active does not count it).
RenameFailureDeregisters ==
    [][LET msg == received'.msg
           env == received'.env
       IN  (/\ HandlingChunk /\ msg.is_last /\ InOrder(msg)
            /\ msg.checksum = digest(FileOf(msg).hasher)
            /\ ReachesRename(FileOf(msg), env)
            /\ ~can_rename(Cur, RenameTarget(FileOf(msg), env)))
           => /\ ret'[1]
              /\ \E k \in 1..Len(sent') :
                     /\ sent'[k].to = msg.connection
                     /\ sent'[k].msg.command = "error"
              /\ up[msg.connection].file \notin files'
              /\ Cardinality(files') = Cardinality(files) - 1]_vars

\* C7: when the write of an in-order chunk that is not the last raises,
\* handle_msg returns finished together with all the credit the session
\* held, an error reply goes to the client, and the upload's destination is
\* no longer reserved (nor its file registered, nor its session kept).
WriteFailureCancels ==
    [][LET msg == received'.msg
           env == received'.env
       IN  (/\ HandlingChunk /\ ~msg.is_last /\ InOrder(msg)
            /\ env.write_fails)
           => /\ ret' = <<TRUE, up[msg.connection].credit>>
              /\ sent' = ErrorReply(msg.connection, 500, "Unknown error")
              /\ FileOf(msg).destination \notin destinations'
              /\ up[msg.connection].file \notin files'
              /\ msg.connection \notin DOMAIN up'
              /\ debt' = debt - up[msg.connection].credit]_vars

\* C7's case: the write of a chunk has just failed for a session that held
\* credit; that session is gone, and the one reservation left is that of the
\* other session
C7_Witness ==
    /\ pc = "top"
    /\ received.msg.command = "post-chunk"
    /\ received.env.write_fails
    /\ Len(ret) = 2 /\ ret[1] /\ ret[2] > 0
    /\ received.msg.connection \notin DOMAIN up
    /\ Len(uploads) = 1
    /\ destinations = {fobj[up[uploads[1]].file].destination}

\* C8: a file's nbytes_written never decreases, and a post-chunk, last or
\* not, whose seek is not nbytes_written is ignored: no staging file changes
\* (bytes written, running hash), the session keeps its credit and stays,
\* the debt is the same, nothing is sent and handle_msg returns (false, 0).
OutOfOrderChunkIgnored ==
    [][/\ \A i \in DOMAIN fobj \cap DOMAIN fobj' :
              fobj'[i].nbytes_written >= fobj[i].nbytes_written
       /\ LET msg == received'.msg IN
            (HandlingChunk /\ ~InOrder(msg))
            => /\ fobj' = fobj
               /\ files' = files /\ destinations' = destinations /\ disk' = disk
               /\ msg.connection \in DOMAIN up'
               /\ up'[msg.connection].credit = up[msg.connection].credit
               /\ ~up'[msg.connection].canceled
               /\ debt' = debt
               /\ sent' = <<>>
               /\ ret' = <<FALSE, 0>>]_vars

\* C8's case: a session with bytes written and credit spent has just been
\* sent a last chunk for an earlier position
C8_Witness ==
    /\ pc = "top"
    /\ received.msg.command = "post-chunk"
    /\ received.msg.is_last
    /\ received.msg.connection \in DOMAIN up
    /\ LET u == up[received.msg.connection] IN
          /\ u.origin = received.msg.origin
          /\ received.msg.seek < fobj[u.file].nbytes_written
          /\ u.credit < MAX_CREDIT

\* the destination add_file computes for a post-file: [ok, dest]
DestOf(msg) ==
    LET clean == clean_filename(msg.name) IN
    IF ~clean.ok THEN [ok |-> FALSE, dest |-> <<>>]
    ELSE destination_from_meta(msg.name, clean.name, msg.meta, msg.origin)

\* C9: a destination is reserved by at most one registered staging file, the
\* reserved set is the set of their destinations, and two sessions never
\* hold the same destination; a post-file whose destination is reserved or
\* exists on disk is refused and registers nothing.
DestinationExclusive ==
    /\ [](/\ \A i, j \in files :
                i # j => fobj[i].destination # fobj[j].destination
          /\ destinations = {fobj[i].destination : i \in files}
          /\ \A c, d \in DOMAIN up :
                c # d => fobj[up[c].file].destination # fobj[up[d].file].destination)
    /\ [][LET msg == received'.msg IN
            (/\ Handling /\ msg.command = "post-file"
             /\ msg.connection \notin DOMAIN up
             /\ DestOf(msg).ok
             /\ DestOf(msg).dest \in destinations \cup DOMAIN disk)
            => /\ nfiles' = nfiles /\ fobj' = fobj
               /\ files' = files /\ destinations' = destinations
               /\ up' = up /\ debt' = debt
               /\ sent' = ErrorReply(msg.connection, 500,
                     IF DestOf(msg).dest \in destinations
                     THEN "Failed to create upload: File is being uploaded already."
                     ELSE "Failed to create upload: File exists on server.")]_vars

\* C9's case: a post-file has just been refused because the session of
\* another peer holds its destination
C9_Witness ==
    /\ pc = "top"
    /\ received.msg.command = "post-file"
    /\ received.msg.connection \notin DOMAIN up
    /\ DestOf(received.msg).ok
    /\ \E c \in DOMAIN up :
          /\ up[c].file \in files
          /\ fobj[up[c].file].destination = DestOf(received.msg).dest

-----------------------------------------------------------------------------
(* Integrity of an upload of the client *)

\* the chunks the client has read from its source, in order; the read at the
\* end of the source returns no data and makes the last message
ClientChunks == SelectSeq(client.file.taken, LAMBDA d : d # <<>>)

IsPrefix(s, t) == Len(s) <= Len(t) /\ SubSeq(t, 1, Len(s)) = s

RECURSIVE Flatten(_)
Flatten(chunks) ==
    IF chunks = <<>> THEN <<>> ELSE Head(chunks) \o Flatten(Tail(chunks))

\* this step answers a last chunk with upload-finished
Finishing ==
    /\ HandlingChunk
    /\ received'.msg.is_last
    /\ \E k \in 1..Len(sent') : sent'[k].msg.command = "upload-finished"

\* C10: at every moment the chunks written to a staging file, in write
\* order, are the first chunks the client read from its source, none missing,
\* doubled or out of place, whatever is lost, passed over or sent again after
\* a status report; and when an upload ends with upload-finished the written
\* chunks are all the chunks the client read, the checksum the client sent is
\* the digest of the server's running hash over exactly those bytes, and
\* these bytes are what lands at the destination.
UploadIntegrity ==
    /\ [](\A i \in DOMAIN fobj :
            /\ IsPrefix(fobj[i].chunks, ClientChunks)
            /\ fobj[i].hasher = Flatten(fobj[i].chunks))
    /\ [][LET msg == received'.msg IN
            Finishing =>
                /\ FileOf(msg).chunks = ClientChunks
                /\ FileOf(msg).hasher = client.file.hasher
                /\ msg.checksum = digest(FileOf(msg).hasher)
                /\ FileOf(msg).destination \in DOMAIN disk'
                /\ disk'[FileOf(msg).destination].content = Flatten(ClientChunks)]_vars

\* C10's case: the client has been told that its upload is finished, after a
\* status report set it back and the server passed over chunks it had
\* written already and chunks that came too early; the source, more than one
\* chunk long, is at the destination
C10_Witness ==
    /\ client.pc = "done"
    /\ client.rewound
    /\ ignored = {"duplicate", "ahead"}
    /\ lost > 0
    /\ Len(ClientChunks) >= 2
    /\ \E p \in DOMAIN disk : disk[p].content = Source

-----------------------------------------------------------------------------
(* Resuming after a status report *)

\* the offsets of the chunks in the client's replay buffer
Buffered == {client.file.chunks[j][1] : j \in 1..Len(client.file.chunks)}

\* the status reports on their way to the client
Reports == {toClient[k] : k \in {j \in 1..Len(toClient) :
                                    toClient[j].command = "status-report"}}

-----------------------------------------------------------------------------
(* Messages the loop turns away *)

\* this step handles a message that is no post-file and whose connection has
\* no session
HandlingUnknown ==
    /\ Handling
    /\ received'.msg.command \in {"post-chunk", "query-status", "error"}
    /\ received'.msg.connection \notin DOMAIN up

\* C12: a message that is no post-file and whose connection is not in the
\* uploads map is answered with error code 400, "Unknown connection.", to
\* that connection, and changes neither the sessions, the debt nor the
\* storage.
UnknownConnectionRefused ==
    [][HandlingUnknown =>
          /\ sent' = ErrorReply(received'.msg.connection, 400, "Unknown connection.")
          /\ UNCHANGED <<srvVars, stoVars>>]_vars

\* this step handles frames recv_msg_server refused with InvalidMessageError
HandlingInvalid == Handling /\ received'.msg.command = "invalid"

\* the connection whose identity frame leads the frames
FramesFrom(frames) == ConnName(frames[1].bytes)

\* C13: whenever the decoding of received frames fails (frames are missing,
\* the metadata is no JSON, the command is unknown), the frames having the
\* identity frame of their connection, the server answers error 400,
\* "Invalid message", to that connection, changes neither sessions, debt nor
\* storage, and goes on with the loop.
InvalidMessageAnswered ==
    [][HandlingInvalid =>
          /\ sent' = ErrorReply(FramesFrom(received'.msg.frames), 400,
                                "Invalid message")
          /\ UNCHANGED <<srvVars, stoVars>>
          /\ pc' = "top"]_vars

\* Server.serve, lines 224-225: the world the sweep starts from, after the
\* credit distribution of the same turn
BeforeSweep == IF debt < MIN_DEBT THEN distribute_credit(Cur) ELSE Cur

\* this turn of the loop runs Server._check_timeouts
Sweeping == pc = "top" /\ pc' # "top" /\ now - last_active_check > TIMEOUT

\* the sessions whose last activity is more than TIMEOUT ago
TimedOut == {c \in DOMAIN up : now - up[c].last_active > TIMEOUT}

TimeoutError(c) ==
    [to |-> c, msg |-> [command |-> "error", code |-> 408,
                        msg |-> "Connection timed out."]]

\* C14: a timeout sweep cancels exactly the sessions whose last_active is
\* more than TIMEOUT ago: each of them is sent error(408, "Connection timed
\* out."), its staging file is aborted, it leaves the uploads map, and the
\* debt falls by exactly the credit these sessions held; the other sessions
\* keep their credit, their staging file and their place in the map.
TimeoutSweepExact ==
    [][Sweeping => \A b \in {BeforeSweep} :
          /\ pc' = "recv"
          /\ \A c \in TimedOut :
                /\ \E k \in 1..Len(sent') : sent'[k] = TimeoutError(c)
                /\ up[c].file \notin files'
                /\ fobj[up[c].file].destination \notin destinations'
                /\ c \notin DOMAIN up'
          /\ debt' = b.debt - SumOver([c \in TimedOut |-> b.up[c].credit], TimedOut)
          /\ \A c \in DOMAIN up \ TimedOut :
                /\ \A k \in 1..Len(sent') : sent'[k] # TimeoutError(c)
                /\ c \in DOMAIN up'
                /\ up'[c] = b.up[c]
                /\ up[c].file \in files <=> up[c].file \in files'
                /\ fobj'[up[c].file] = fobj[up[c].file]
          /\ uploads' = SelectSeq(uploads, LAMBDA c : c \notin TimedOut)]_vars

\* C14's case: the sweep of the last turn cancelled a session for its
\* timeout, and left a session that holds credit and written bytes in the map
C14_Witness ==
    /\ pc = "recv"
    /\ received = Nothing
    /\ \E k \in 1..Len(sent) : sent[k].msg.command = "error" /\ sent[k].msg.code = 408
    /\ \E c \in DOMAIN up : up[c].credit > 0 /\ fobj[up[c].file].nbytes_written > 0

\* C15: over the lifetime of every staging file the cleanup (close, remove
\* the temporary files, deregister from the storage) is performed exactly
\* once, by abort or by finalize on every branch of it: when a step ends a
\* session's hold on its staging file (the last chunk was finalized, the
\* session was cancelled or timed out), the storage no longer registers the
\* file nor reserves its destination, and the loop has not failed on a
\* repeated cleanup.
CleanupOnEveryBranch ==
    [][\A i \in SessionFiles :
          i \notin SessionFiles' =>
              /\ i \notin files'
              /\ fobj[i].destination \notin destinations'
              /\ pc' # "crashed"]_vars

\* C16: landing is ordered.  A path comes into existence in a destination
\* directory only through the rename of finalize, which follows the checksum
\* test and the writing of the checksum, original-filename and source
\* sidecars into the staging directory: whatever a step lands was finalized
\* by a last chunk whose checksum is the digest of the bytes written, and
\* holds those bytes and all sidecars, for tar uploads with untar too.
LandingOrdered ==
    [][LET msg == received'.msg IN
       \A d \in DOMAIN disk' \ DOMAIN disk :
          /\ HandlingChunk
          /\ msg.is_last
          /\ InOrder(msg)
          /\ msg.checksum = digest(FileOf(msg).hasher)
          /\ disk'[d].content = FileOf(msg).hasher
          /\ disk'[d].sidecars]_vars

\* this step handles a post-file
HandlingPostFile == Handling /\ received'.msg.command = "post-file"

\* the connection of msg has no session, and the storage's rules accept the
\* name and the metadata of msg for its origin
Acceptable(msg) ==
    /\ msg.connection \notin DOMAIN up
    /\ ~Raised(add_file(Cur, msg.name, msg.meta, msg.origin))

\* Server._add_upload, line 153
InitCredit == Min(MAX_CREDIT, Max(0, MAX_DEBT - debt))

\* C17: a post-file on a connection that has no session, with a filename
\* and metadata the storage's rules accept, creates exactly one session
\* under that connection, last in the order of the uploads map, is answered
\* with upload-approved(credit = init_credit, chunksize = CHUNKSIZE,
\* max_credit = MAX_CREDIT), registers one staging file, and raises the debt
\* by init_credit.
PostFileCreatesSession ==
    [][LET msg == received'.msg IN
       (HandlingPostFile /\ Acceptable(msg)) =>
          /\ uploads' = Append(uploads, msg.connection)
          /\ DOMAIN up' = DOMAIN up \cup {msg.connection}
          /\ \A c \in DOMAIN up : up'[c] = up[c]
          /\ up'[msg.connection].credit = InitCredit
          /\ up'[msg.connection].origin = msg.origin
          /\ sent' = <<[to |-> msg.connection,
                        msg |-> [command |-> "upload-approved",
                                 credit |-> InitCredit,
                                 chunksize |-> CHUNKSIZE,
                                 max_credit |-> MAX_CREDIT]]>>
          /\ files' = files \cup {up'[msg.connection].file}
          /\ up'[msg.connection].file \notin files
          /\ debt' = debt + InitCredit]_vars

\* this step hands the session of its connection a last chunk in order whose
\* checksum is the digest of the bytes written
HandlingGoodLast ==
    /\ HandlingChunk
    /\ received'.msg.is_last
    /\ InOrder(received'.msg)
    /\ received'.msg.checksum = digest(FileOf(received'.msg).hasher)

\* the step sent one message: upload-finished with the id of the session
FinishedReply(conn, id) ==
    <<[to |-> conn, msg |-> [command |-> "upload-finished", upload_id |-> id]]>>

HandlingError ==
    /\ Handling
    /\ received'.msg.command = "error"
    /\ received'.msg.connection \in DOMAIN up
    /\ up[received'.msg.connection].origin = received'.msg.origin

\* C19: when the client sends error on an active session, the server cancels
\* silently: nothing is sent, the staging file is aborted (the storage's
\* num_active falls by one and the destination is free again), handle_msg
\* returns (true, the credit held), so that the debt falls by that credit,
\* and the session is removed.
ClientErrorCancelsSilently ==
    [][LET msg == received'.msg IN
       HandlingError =>
          /\ sent' = <<>>
          /\ up[msg.connection].file \notin files'
          /\ Cardinality(files') = Cardinality(files) - 1
          /\ FileOf(msg).destination \notin destinations'
          /\ ret' = <<TRUE, up[msg.connection].credit>>
          /\ debt' = debt - up[msg.connection].credit
          /\ msg.connection \notin DOMAIN up'
          /\ uploads' = SelectSeq(uploads, LAMBDA c : c # msg.connection)]_vars

\* C19's case: the client's error has just cancelled a session that held
\* credit, while another session and its file stay
C19_Witness ==
    /\ pc = "top"
    /\ received.msg.command = "error"
    /\ Len(ret) = 2 /\ ret[1] /\ ret[2] > 0
    /\ sent = <<>>
    /\ received.msg.connection \notin DOMAIN up
    /\ Len(uploads) = 1
    /\ num_active(Cur) = 1

\* this step receives, on the connection of a session, a message that
\* Server._dispatch_connection handles and whose origin is not the session's
HandlingForeign ==
    /\ Handling
    /\ received'.msg.command \in {"post-chunk", "query-status", "error"}
    /\ received'.msg.connection \in DOMAIN up
    /\ up[received'.msg.connection].origin # received'.msg.origin

ServerExiting == pc \in {"top", "recv", "crashed"} /\ pc' = "exited"

ShutdownError(c) ==
    [to |-> c, msg |-> [command |-> "error", code |-> 503,
                        msg |-> "Server shutdown"]]

\* C21: when the Server context is left, for whatever reason, every session
\* still in the uploads map is sent error(503, "Server shutdown") and has
\* its staging file aborted, so that no staging file is registered with the
\* storage afterwards.
ShutdownAbortsAll ==
    [][ServerExiting =>
          /\ \A c \in DOMAIN up :
                /\ \E k \in 1..Len(sent') : sent'[k] = ShutdownError(c)
                /\ up[c].file \notin files'
          /\ files' = {}]_vars

\* filenames Storage.add_file refuses: "../x", ".", "..", ".b", "t/x", "/"
BadNames ==
    { <<".", ".", "/", "x">>, <<".">>, <<".", ".">>, <<".", "b">>,
      <<"t", "/", "x">>, <<"/">> }

\* the post-file msg is one the server rejects: its connection has a
\* session, or its name or metadata yield no destination, or the destination
\* is reserved or exists
Rejected(msg) ==
    \/ msg.connection \in DOMAIN up
    \/ ~DestOf(msg).ok
    \/ DestOf(msg).dest \in destinations
    \/ DestOf(msg).dest \in DOMAIN disk

\* C22: a post-file that is rejected (an invalid filename, no matching
\* rule, a destination that is reserved or exists, a connection that has a
\* session) has no effect but one error reply to its sender: no temporary
\* directory and no UploadFile is created, the storage's files and reserved
\* destinations, the sessions and the debt are what they were; and every
\* name of BadNames is refused, whatever the state.
RejectedPostFileHasNoEffect ==
    /\ [](\A name \in BadNames : \A o \in Origins :
             \A r \in {add_file(Cur, name, PassT, o)} :
                Raised(r) /\ r = Raise(Cur, r.exc))
    /\ [][LET msg == received'.msg IN
          (HandlingPostFile /\ Rejected(msg)) =>
             /\ Len(sent') = 1
             /\ sent'[1].to = msg.connection
             /\ sent'[1].msg.command = "error"
             /\ UNCHANGED <<srvVars, stoVars>>]_vars

\* C22's case: a post-file with a name the storage refuses has just been
\* answered with an error, on a connection without a session, while a
\* session holds credit and a reservation
C22_Witness ==
    /\ pc = "top"
    /\ received.msg.command = "post-file"
    /\ received.msg.connection \notin DOMAIN up
    /\ ~DestOf(received.msg).ok
    /\ Len(sent) = 1 /\ sent[1].msg.command = "error"
    /\ debt > 0
    /\ destinations # {}

\* the files this step aborts: registered before, gone from the storage
\* after, and not landed by finalize (no upload-finished was sent)
Aborted == IF Sent("upload-finished")' THEN {} ELSE files \ files'

\* C23: abort releases the reservation: after the abort of a staging file
\* its destination is no longer reserved, and a new add_file with the same
\* filename, metadata and origin succeeds.
AbortReleases ==
    [][\A i \in Aborted :
          /\ fobj[i].destination \notin destinations'
          /\ ~Raised(add_file(Cur', fobj[i].filename, fobj[i].meta,
                              fobj[i].origin))]_vars

\* this step leaves the Storage context
StorageExiting == pc = "exited" /\ pc' # "exited"

\* C24: leaving the Storage context cleans up every staging file that is
\* still registered, whatever add_file, write, abort and finalize did
\* before: afterwards num_active is 0, no destination is reserved, and
\* __exit__ has raised nothing.
StorageExitCleansAll ==
    [][StorageExiting =>
          /\ pc' = "closed"
          /\ num_active(Cur') = 0
          /\ destinations' = {}
          /\ disk' = disk]_vars

\* C24's case: the Storage context has been left with two files registered
\* that no session held and Server.__exit__ did not abort
C24_Witness ==
    /\ pc = "closed"
    /\ received.msg.command = "storage-exit"
    /\ Cardinality(received.msg.files) >= 2
    /\ files = {}

-----------------------------------------------------------------------------
\* the call m has an integer that does not fit the width of its field
TooWide(m) ==
    \E f \in DOMAIN m :
        \/ f \in {"flags", "code", "credit", "chunksize", "max_credit", "amount"}
           /\ Len(m[f]) > 4
        \/ f = "seek" /\ Len(m[f]) > 8

-----------------------------------------------------------------------------
\* this step handles a post-file and leaves a new session in the uploads map
Creating ==
    /\ HandlingPostFile
    /\ received'.msg.connection \notin DOMAIN up
    /\ received'.msg.connection \in DOMAIN up'

\* C26: a session starts with the credit min(MAX_CREDIT, max(0, MAX_DEBT -
\* debt)) of the debt its post-file met, which upload-approved announces and
\* the debt grows by; met by a debt of MAX_DEBT or more it starts with credit
\* 0, and a debt of at most MAX_DEBT is at most MAX_DEBT afterwards.
SessionStartsWithInitCredit ==
    [][LET conn == received'.msg.connection IN
       Creating =>
          /\ up'[conn].credit = InitCredit
          /\ \E k \in 1..Len(sent') :
                /\ sent'[k].to = conn
                /\ sent'[k].msg.command = "upload-approved"
                /\ sent'[k].msg.credit = InitCredit
          /\ debt' = debt + InitCredit
          /\ debt >= MAX_DEBT => up'[conn].credit = 0 /\ debt' = debt
          /\ debt <= MAX_DEBT => debt' <= MAX_DEBT]_vars

\* a session was created while the debt was MAX_DEBT, with credit 0
C26_Witness ==
    /\ pc = "top"
    /\ received.msg.command = "post-file"
    /\ received.msg.connection \in DOMAIN up
    /\ up[received.msg.connection].credit = 0
    /\ Sent("upload-approved")
    /\ debt = MAX_DEBT

-----------------------------------------------------------------------------
RECURSIVE PassGrants(_, _)
\* what a pass sends from the i-th session on when the debt is d: to each
\* session below TRANSFER_THRESHOLD, in the order of the uploads map, what
\* of MAX_DEBT - d its credit can take, until the debt is MAX_DEBT
PassGrants(i, d) ==
    IF i > Len(uploads) \/ d >= MAX_DEBT THEN <<>>
    ELSE LET c == up[uploads[i]].credit
             delta == Min(MAX_CREDIT, c + (MAX_DEBT - d)) - c
         IN  IF c >= TRANSFER_THRESHOLD THEN PassGrants(i + 1, d)
             ELSE <<[to |-> uploads[i],
                     msg |-> [command |-> "transfer-credit", amount |-> delta]]>>
                  \o PassGrants(i + 1, d + delta)

\* the transfer-credit messages among those the last step sent
Transfers == SelectSeq(sent, LAMBDA m : m.msg.command = "transfer-credit")

\* the place of the session of conn in the uploads map
Place(conn) == CHOOSE k \in 1..Len(uploads) : uploads[k] = conn

\* C27: the head of the loop transfers credit only when the debt is below
\* MIN_DEBT; the pass goes through the sessions in the order they were
\* created, offers each MAX_DEBT less the debt the earlier grants of the pass
\* have made, stops when the debt is MAX_DEBT, and leaves a debt of at most
\* MAX_DEBT.
DistributionPass ==
    [][(pc = "top" /\ pc' = "recv") =>
          /\ Transfers' = IF debt < MIN_DEBT THEN PassGrants(1, debt) ELSE <<>>
          /\ \A j, k \in 1..Len(Transfers') :
                j < k => Place(Transfers'[j].to) < Place(Transfers'[k].to)
          /\ debt < MIN_DEBT =>
                debt + SumOver([k \in 1..Len(Transfers') |-> Transfers'[k].msg.amount],
                               1..Len(Transfers')) <= MAX_DEBT
          /\ (debt < MIN_DEBT /\ last_active_check' = last_active_check) =>
                debt' <= MAX_DEBT]_vars

\* a pass has stopped at a debt of MAX_DEBT before the newest session, whose
\* credit is below TRANSFER_THRESHOLD
C27_Witness ==
    /\ pc = "recv"
    /\ Transfers # <<>>
    /\ debt = MAX_DEBT
    /\ Len(uploads) >= 2
    /\ up[uploads[Len(uploads)]].credit < TRANSFER_THRESHOLD
    /\ \A k \in 1..Len(Transfers) : Transfers[k].to # uploads[Len(uploads)]

-----------------------------------------------------------------------------
\* the amounts of the transfer-credit messages ms
Amounts(ms) == SumOver([k \in 1..Len(ms) |-> ms[k].msg.amount], 1..Len(ms))

\* C28: in a pass that no sweep follows, a session whose credit c is at
\* least TRANSFER_THRESHOLD is sent nothing and keeps c; a session below it
\* that is offered an amount is sent exactly one transfer-credit, its credit
\* becomes min(MAX_CREDIT, c + amount), and the message carries the
\* difference; what the pass sends is what the credit of the sessions and
\* the debt of the server grow by.
OfferCreditContract ==
    [][(pc = "top" /\ pc' = "recv" /\ debt < MIN_DEBT
            /\ last_active_check' = last_active_check) =>
          /\ DOMAIN up' = DOMAIN up
          /\ \A conn \in DOMAIN up :
                LET c == up[conn].credit
                    mine == SelectSeq(Transfers', LAMBDA m : m.to = conn)
                    amount == MAX_DEBT - debt
                        - Amounts(SelectSeq(Transfers',
                                            LAMBDA m : Place(m.to) < Place(conn)))
                IN  /\ c >= TRANSFER_THRESHOLD => mine = <<>>
                    /\ (c < TRANSFER_THRESHOLD /\ amount > 0) =>
                          /\ Len(mine) = 1
                          /\ up'[conn].credit = Min(MAX_CREDIT, c + amount)
                    /\ amount <= 0 => mine = <<>>
                    /\ up'[conn].credit - c = Amounts(mine)
          /\ debt' - debt = Amounts(Transfers')
          /\ CreditSum' - CreditSum = Amounts(Transfers')]_vars

\* a pass has passed over a session at or above TRANSFER_THRESHOLD and has
\* granted another session less than would fill it to MAX_CREDIT
C28_Witness ==
    /\ pc = "recv"
    /\ \E k \in 1..Len(Transfers) :
          /\ Transfers[k].to \in DOMAIN up
          /\ up[Transfers[k].to].credit < MAX_CREDIT
    /\ \E conn \in DOMAIN up :
          /\ up[conn].credit >= TRANSFER_THRESHOLD
          /\ \A k \in 1..Len(Transfers) : Transfers[k].to # conn

-----------------------------------------------------------------------------
\* this step hands a query-status to the session of its connection
HandlingQuery ==
    /\ Handling
    /\ received'.msg.command = "query-status"
    /\ received'.msg.connection \in DOMAIN up
    /\ up[received'.msg.connection].origin = received'.msg.origin

\* C29: a query-status on an active session is answered with exactly one
\* status-report that carries the bytes written to the session's file and
\* the session's credit; handle_msg returns (false, 0); the bytes written,
\* the credit, the debt and the uploads map stay as they were.
QueryStatusReports ==
    [][LET msg == received'.msg IN
       HandlingQuery =>
          /\ sent' = <<[to |-> msg.connection,
                        msg |-> [command |-> "status-report",
                                 seek |-> FileOf(msg).nbytes_written,
                                 credit |-> up[msg.connection].credit]]>>
          /\ ret' = <<FALSE, 0>>
          /\ fobj' = fobj
          /\ uploads' = uploads
          /\ DOMAIN up' = DOMAIN up
          /\ up'[msg.connection].credit = up[msg.connection].credit
          /\ debt' = debt]_vars

-----------------------------------------------------------------------------
\* in this step the client handles a status report
HandlingReport ==
    /\ client.pc = "recv"
    /\ toClient # <<>>
    /\ Head(toClient).command = "status-report"
    /\ toClient' = Tail(toClient)
    /\ lost' = lost

\* in this step the client sends a chunk
SendingChunk == client.pc = "send" /\ client' # client /\ client'.pc # "failed"

\* the chunk the client read from its source at the offset seek
OriginalAt(seek) ==
    SubSeq(Source, seek + 1,
           Min(seek + client.file.chunksize \div Unit, Len(Source)))

\* C30: when the client handles status-report(seek, credit) its credit
\* becomes the reported credit and its read position the reported seek; the
\* read position changes otherwise only when a chunk is sent, and the chunk
\* sent carries the read position as seek and the data first read at that
\* offset; and a last chunk that comes in order at the server, after a resume
\* or not, has the digest of the server's running hash as checksum.
ResumeFromReport ==
    [][/\ HandlingReport =>
             /\ client'.pc # "failed"
             /\ client'.credit = Head(toClient).credit
             /\ client'.file.seek = Head(toClient).seek
             /\ client'.file.seek_read = client.file.seek_read
             /\ client'.file.hasher = client.file.hasher
       /\ SendingChunk =>
             LET chunk == toServer'[Len(toServer')] IN
                /\ toServer' = Append(toServer, chunk)
                /\ chunk.command = "post-chunk"
                /\ chunk.seek = client.file.seek
                /\ chunk.data = OriginalAt(chunk.seek)
                /\ chunk.is_last = (chunk.seek = Len(Source))
       /\ client'.file.seek # client.file.seek => HandlingReport \/ SendingChunk
       /\ LET msg == received'.msg IN
             (HandlingChunk /\ msg.is_last /\ InOrder(msg)) =>
                msg.checksum = digest(FileOf(msg).hasher)]_vars

\* the client was set back by a status report it had asked for, and its
\* upload is finished with the source at the destination
C30_Witness ==
    /\ client.pc = "done"
    /\ client.rewound
    /\ client.queries > 0
    /\ client.file.seek = Len(Source)
    /\ \E p \in DOMAIN disk : disk[p].content = Source

-----------------------------------------------------------------------------
\* in this step the client takes a message from the server
ClientTaking ==
    /\ client.pc = "recv"
    /\ toClient # <<>>
    /\ toClient' = Tail(toClient)
    /\ lost' = lost

\* what holds of every chunk the client sends: it has credit, the loop of
\* send_chunks has not sent a last chunk, and the chunk costs one credit
ChunkCostsCredit ==
    SendingChunk =>
        /\ client.credit > 0
        /\ ~client.is_last
        /\ client'.credit = client.credit - 1
        /\ Len(toServer') = Len(toServer) + 1

\* C31 as stated: the client sends a chunk only while it has credit and has
\* not sent the last chunk; a chunk costs one credit; the credit is never
\* negative; and after the last chunk the client sends again only when a
\* status report has set it back to an earlier seek.
LastChunkEndsSending ==
    /\ [](client.credit >= 0)
    /\ [][/\ ChunkCostsCredit
          /\ (client.pc = "recv" /\ client.is_last /\ client'.pc = "send") =>
                /\ HandlingReport
                /\ Head(toClient).seek < client.file.seek]_vars

\* C31: the client sends a chunk only while it has credit and the running
\* call of send_chunks has not sent the last chunk; a chunk costs one credit;
\* the credit is never negative; and after the last chunk the client sends
\* again only when a status report or a transfer of credit has left it with
\* credit, and what it then sends at the end of the source is the last chunk
\* again, with the digest of the whole source.
LastChunkSentAgainOnCredit ==
    /\ [](client.credit >= 0)
    /\ [][/\ ChunkCostsCredit
          /\ (client.pc = "recv" /\ client.is_last /\ client'.pc = "send") =>
                /\ ClientTaking
                /\ Head(toClient).command \in {"status-report", "transfer-credit"}
                /\ client'.credit > 0
          /\ (SendingChunk /\ client.file.seek = Len(Source)) =>
                LET chunk == toServer'[Len(toServer')] IN
                   /\ chunk.is_last
                   /\ chunk.data = <<>>
                   /\ chunk.checksum = digest(Source)
                   /\ client'.pc = "recv"]_vars

\* the last chunk has been sent a second time, after a status report that
\* named the end of the source
C31_Witness ==
    /\ client.pc = "recv"
    /\ client.is_last
    /\ ~client.rewound
    /\ client.queries > 0
    /\ Len(SelectSeq(client.file.taken, LAMBDA d : d = <<>>)) >= 2

-----------------------------------------------------------------------------
\* in this step a receive of the waiting client times out
TimingOut ==
    /\ client.pc = "recv"
    /\ client'.retries = client.retries + 1

\* C32: a receive timeout of the waiting client sends one query-status; the
\* RETRIES-th timeout in a row, and no earlier one, ends the client with an
\* error; a message the client takes ends the wait, and the next wait counts
\* from zero; so a wait has at most RETRIES queries and does not last forever.
WaitIsBounded ==
    /\ [](client.pc = "recv" => client.retries < RETRIES)
    /\ [][/\ TimingOut =>
                /\ client.queries < MaxQueries =>
                      toServer' = Append(toServer, client_query_status)
                /\ client'.pc = IF client.retries + 1 = RETRIES THEN "failed" ELSE "recv"
                /\ client'.credit = client.credit
                /\ client'.file = client.file
          /\ (client.pc = "recv" /\ client'.pc = "failed" /\ ~ClientTaking) =>
                TimingOut /\ client'.retries = RETRIES
          /\ ClientTaking => client'.pc # "recv" \/ client'.retries = 0
          /\ (client.pc = "send" /\ client'.pc = "recv") => client'.retries = 0]_vars
    /\ (client.pc = "recv" /\ client.retries > 0)
          ~> (client.pc # "recv" \/ client.retries = 0)

\* the client has given up after RETRIES timeouts in a row, in a wait that
\* began after it had sent all its chunks
C32_Witness ==
    /\ client.pc = "failed"
    /\ client.retries = RETRIES
    /\ client.is_last

-----------------------------------------------------------------------------
\* the session of conn has been inactive for more than TIMEOUT
Inactive(conn) == conn \in DOMAIN up /\ now - up[conn].last_active > TIMEOUT

\* C33: a session that has been inactive for more than TIMEOUT is canceled
\* in the end (or heard from again), whether or not another message arrives
\* at the server.
InactiveSessionCanceled ==
    \A conn \in Conns2 : Inactive(conn) ~> ~Inactive(conn)

-----------------------------------------------------------------------------
\* C34: while the serve loop runs no session of the uploads map is canceled,
\* so no message is handed to a canceled session and the assertion of
\* handle_msg holds: a cancellation, by the client's error, by an exception
\* in the handling or by the timeout sweep, takes the session out of the map
\* in the same turn of the loop.
CanceledIsTerminal ==
    /\ [](pc \in {"top", "recv"} => \A c \in DOMAIN up : ~up[c].canceled)
    /\ [][LET msg == received'.msg IN
          (Handling /\ msg.command # "post-file" /\ msg.connection \in DOMAIN up) =>
              /\ ~up[msg.connection].canceled
              /\ \A k \in 1..Len(sent') : sent'[k].msg.command = "error" =>
                    msg.connection \notin DOMAIN up']_vars

\* a chunk has come after the only session there was had been canceled (its
\* file is gone and nothing has landed), and was turned away
C34_Witness ==
    /\ pc = "top"
    /\ received.msg.command = "post-chunk"
    /\ received.msg.connection \notin DOMAIN up
    /\ Sent("error")
    /\ nfiles = 1
    /\ files = {}
    /\ DOMAIN disk = {}

-----------------------------------------------------------------------------
\* C35: the serve loop never ends on an exception: whatever frames arrive
\* and whatever the handling of a message raises, the loop goes on to its
\* next receive.
LoopNeverEnds == pc # "crashed"

\* this step hands the session of the client a chunk that is at the position
\* of its staging file
AcceptingChunk ==
    /\ HandlingChunk
    /\ received'.msg.connection = ClientConn
    /\ InOrder(received'.msg)

\* C36: over a network that loses nothing and keeps the order, the credit of
\* the client's session is never below 0, and every chunk the server accepts
\* meets a session that holds a credit, whatever status-reports and
\* transfer-credits cross the chunks on their way.
CreditCoversChunks ==
    /\ [](ClientConn \in DOMAIN up => up[ClientConn].credit >= 0)
    /\ [][AcceptingChunk => up[ClientConn].credit >= 1]_vars

\* C36's case: the session of the client has spent the one credit a pass left
\* for it, and the chunk the client sent again after a status-report that
\* crossed it has just met the session without credit and was passed over
C36_Witness ==
    /\ pc = "top"
    /\ received # Nothing
    /\ received.msg.command = "post-chunk"
    /\ received.msg.connection = ClientConn
    /\ ClientConn \in DOMAIN up
    /\ up[ClientConn].credit = 0
    /\ received.msg.seek < fobj[up[ClientConn].file].nbytes_written
    /\ client.rewound
    /\ "duplicate" \in ignored

\* the client takes an error message from its queue
TakingError == ClientTaking /\ Head(toClient).command = "error"

\* C37: an approved upload ends at its client, with upload-finished or with
\* an error of the server, and a client that waits without credit is granted
\* credit or ends: no session waits forever for the debt to fall below
\* MIN_DEBT.
UploadEnds ==
    /\ (client.pc \in {"send", "recv"}) ~> (client.pc \in {"done", "failed"})
    /\ (client.pc = "recv" /\ client.credit = 0) ~>
            (client.credit > 0 \/ client.pc \in {"done", "failed"})
    /\ [][(client.pc \in {"send", "recv"} /\ client'.pc = "failed") => TakingError]_vars

\* C37's case: the client was approved without credit and has waited and
\* asked for the status; other peers have ended, and the pass at the head of
\* the loop has just granted it credit
C37_Witness ==
    /\ pc = "recv"
    /\ \E k \in 1..Len(sent) :
          sent[k].to = ClientConn /\ sent[k].msg.command = "transfer-credit"
    /\ client.pc = "recv"
    /\ client.credit = 0
    /\ client.file.seek = 0
    /\ client.queries > 0
    /\ DOMAIN up # {ClientConn}

\* the step answers the message it handles with the error of an unknown
\* connection, and with nothing else
UnknownReply ==
    /\ Len(sent') = 1
    /\ sent'[1].to = received'.msg.connection
    /\ sent'[1].msg.command = "error"
    /\ sent'[1].msg.msg = "Unknown connection."

\* a step sends a session one upload-finished or one error at most, after
\* which the session is gone; a connection without session is sent no
\* transfer-credit, status-report or upload-finished
OneTerminal ==
    \A c \in Conns :
        /\ Len(MsgsTo(sent', c, Terminal)) <= 1
        /\ c \in SessionEnds => c \notin DOMAIN up'
        /\ c \notin DOMAIN up =>
              MsgsTo(sent', c, {"transfer-credit", "status-report",
                                "upload-finished"}) = <<>>

\* C38: a session is sent one terminal message at most (upload-finished or an
\* error, never both) and is gone before the next receive; the server sends
\* no transfer-credit, status-report or upload-finished for it afterwards,
\* and every later message on its connection is answered as an unknown
\* connection.
OneTerminalMessage ==
    [][/\ OneTerminal
       /\ (Handling /\ received'.msg.connection \in ended) => UnknownReply]_vars

\* C38, amended: the same, where the later messages that are answered as an
\* unknown connection are those that are no post-file and arrive before a
\* post-file has opened a new session on the connection.
OneTerminalMessageUntilPost ==
    [][/\ OneTerminal
       /\ (/\ Handling
           /\ received'.msg.connection \in ended
           /\ received'.msg.connection \notin DOMAIN up
           /\ received'.msg.command # "post-file") => UnknownReply]_vars

\* C38's case: the server has ended the sessions of two connections, one of
\* them with upload-finished, and a chunk that arrives on such a connection
\* afterwards is answered as an unknown connection
C38_Witness ==
    /\ pc = "top"
    /\ received.msg.command = "post-chunk"
    /\ received.msg.connection \in ended
    /\ received.msg.connection \notin DOMAIN up
    /\ Len(sent) = 1
    /\ sent[1].msg.command = "error"
    /\ sent[1].msg.msg = "Unknown connection."
    /\ Cardinality(ended) >= 2
    /\ DOMAIN disk # {}

\* this step hands a session a last chunk at the position of its file
HandlingLast ==
    /\ HandlingChunk
    /\ received'.msg.is_last
    /\ InOrder(received'.msg)

\* C39: the answer to a last chunk agrees with the landing: when it is
\* upload-finished the step has created a path at the destination directory,
\* and when it is an error the step has created none.
OutcomeAgreesWithLanding ==
    [][HandlingLast =>
          /\ Sent("upload-finished")' => DOMAIN disk' # DOMAIN disk
          /\ Sent("error")' => DOMAIN disk' = DOMAIN disk]_vars

\* this step handles a post-file on a connection that has a session
HandlingSecondPost ==
    /\ HandlingPostFile
    /\ received'.msg.connection \in DOMAIN up

\* C40: a post-file on a connection that has a session is answered with an
\* error and with nothing else, and changes nothing: the session (credit,
\* last_active, file), its staging file, the order of the uploads, the
\* registered files and destinations, the disk and the debt are what they
\* were.
SecondPostRejected ==
    [][HandlingSecondPost =>
          /\ sent' = ErrorReply(received'.msg.connection, 500,
                                "Failed to create upload: Connection id not unique")
          /\ UNCHANGED <<srvVars, stoVars>>]_vars

\* C40's case: a second post-file has just been refused on the connection of
\* a session that has written data, while another session is open
C40_Witness ==
    /\ pc = "top"
    /\ received.msg.command = "post-file"
    /\ received.msg.connection \in DOMAIN up
    /\ Sent("error")
    /\ Len(uploads) = 2
    /\ fobj[up[received.msg.connection].file].nbytes_written > 0
    /\ up[received.msg.connection].credit < MAX_CREDIT

====
